---- MODULE Spec2Model ----
(***************************************************************************)
(* Model of the storyboard application state held by the App component     *)
(* (src/App.tsx): the project collection with its shots, trash bins and     *)
(* image variations, the AI operations gated by the busy flag and the       *)
(* throttle, and the debounced, updatedAt-driven auto-saver in front of the *)
(* persistence gateway.                                                     *)
(***************************************************************************)
EXTENDS Integers, Sequences, FiniteSets, TLC

\* ------------------------------------------------------------------------
\* Bounds of the model
\* ------------------------------------------------------------------------
\* Date.now() readings available to one behaviour
MaxNow == 3
\* uuidv4() values available to one behaviour
MaxIds == 3
\* longest active shot list the model grows to
MaxShots == 3
\* largest project collection the model grows to
MaxProjects == 2
\* clock ticks the 1000 ms debounce delay is divided into
DebounceTicks == 1
\* Gateway operations in flight at one time
MaxInFlight == 2
\* longest encoded payload handed to calculateBase64Size
MaxLen == 5

\* ------------------------------------------------------------------------
\* Program constants
\* ------------------------------------------------------------------------
ThrottleSeconds == 3
CooldownSeconds == 60

\* JavaScript's undefined / null, and a key that is absent from an object
Undefined == "undefined"

DASHBOARD == "DASHBOARD"
PROJECT_DETAIL == "PROJECT_DETAIL"

DefaultSettings ==
  [cameraMovement |-> "Static", shotType |-> "Medium Shot", aspectRatio |-> "16:9",
   artStyle |-> "Cinematic Realistic", lighting |-> "Natural Daylight"]

\* ------------------------------------------------------------------------
\* JavaScript object helpers
\* ------------------------------------------------------------------------
\* the n-th uuidv4() of a behaviour
Uuid(n) == "u" \o ToString(n)

\* the key is present on the object
Has(obj, key) == key \in DOMAIN obj

\* obj.key of a string-valued key, undefined when the key is absent
Get(obj, key) == IF key \in DOMAIN obj THEN obj[key] ELSE Undefined

\* { ...obj, key: value }
Put(obj, key, value) == [k \in DOMAIN obj \cup {key} |-> IF k = key THEN value ELSE obj[k]]

\* delete obj.key
Delete(obj, key) == [k \in DOMAIN obj \ {key} |-> obj[k]]

\* truthiness of a string-valued key (ids, titles)
Truthy(obj, key) == Has(obj, key) /\ obj[key] # Undefined /\ obj[key] # ""

\* truthiness of a key holding an encoded payload (a sequence of characters)
TruthyUrl(obj, key) == Has(obj, key) /\ obj[key] # <<>>

\* truthiness of a number-valued key
TruthyNum(obj, key) == Has(obj, key) /\ obj[key] # 0

\* project.trashedShots || []
TrashedShots(project) == IF Has(project, "trashedShots") THEN project.trashedShots ELSE <<>>

\* array.map(f)
Map(seq, f(_)) == [i \in 1..Len(seq) |-> f(seq[i])]

\* array.filter(keep)
Filter(seq, keep(_)) == SelectSeq(seq, keep)

\* array.findIndex(s => s.id === id), 0 where the code has -1
RECURSIVE FindIndexFrom(_, _, _)
FindIndexFrom(seq, id, i) ==
  IF i > Len(seq) THEN 0
  ELSE IF seq[i].id = id THEN i ELSE FindIndexFrom(seq, id, i + 1)

FindIndex(seq, id) == FindIndexFrom(seq, id, 1)

\* array.find(s => s.id === id), Undefined when there is none
Find(seq, id) == IF FindIndex(seq, id) = 0 THEN Undefined ELSE seq[FindIndex(seq, id)]

Ids(seq) == {seq[i].id : i \in 1..Len(seq)}

\* array.map((shot, index) => ({ ...shot, shotNumber: index + 1 }))
Renumber(shots) == [i \in 1..Len(shots) |-> Put(shots[i], "shotNumber", i)]

\* Array.prototype.sort((a, b) => a.shotNumber - b.shotNumber): a stable sort
RECURSIVE InsertByShotNumber(_, _)
InsertByShotNumber(sorted, shot) ==
  IF sorted = <<>> THEN <<shot>>
  ELSE IF Head(sorted).shotNumber <= shot.shotNumber
       THEN <<Head(sorted)>> \o InsertByShotNumber(Tail(sorted), shot)
       ELSE <<shot>> \o sorted

RECURSIVE SortByShotNumber(_)
SortByShotNumber(shots) ==
  IF shots = <<>> THEN <<>>
  ELSE InsertByShotNumber(SortByShotNumber(SubSeq(shots, 1, Len(shots) - 1)), shots[Len(shots)])

\* ------------------------------------------------------------------------
\* Image Asset Codec
\* ------------------------------------------------------------------------
\* base64String.endsWith(suffix)
EndsWith(str, suffix) ==
  Len(str) >= Len(suffix) /\ SubSeq(str, Len(str) - Len(suffix) + 1, Len(str)) = suffix

\* calculateBase64Size, in quarters of a byte: the code's floating-point result
\* (length * 3 / 4) - padding, times 4, which is exact
calculateBase64Size(base64String) ==
  LET padding == IF EndsWith(base64String, <<"=", "=">>) THEN 2
                 ELSE IF EndsWith(base64String, <<"=">>) THEN 1 ELSE 0
  IN Len(base64String) * 3 - 4 * padding

\* processAndSaveImage; base64Preview is what compressImage resolved with
processAndSaveImage(base64Original, base64Preview, newId, t) ==
  [id |-> newId, originalUrl |-> base64Original, previewUrl |-> base64Preview,
   originalFileSize |-> calculateBase64Size(base64Original),
   previewFileSize |-> calculateBase64Size(base64Preview), createdAt |-> t]

\* ------------------------------------------------------------------------
\* Legacy Shot Migrator, as handleImportJson runs it on every shot of the file
\* ------------------------------------------------------------------------
\* a test that looks at the deprecated fields only
NeedsVariationAlways(shot) ==
  TruthyUrl(shot, "imageUrl") \/ TruthyUrl(shot, "imageOriginalUrl")

\* (shot.imageUrl || shot.imageOriginalUrl) && shot.imageVariations.length === 0
NeedsVariation(shot) ==
  /\ TruthyUrl(shot, "imageUrl") \/ TruthyUrl(shot, "imageOriginalUrl")
  /\ ~Has(shot, "imageVariations") \/ Len(shot.imageVariations) = 0

\* a variation built from imageUrl before imageOriginalUrl
LegacyVariationFromUrl(shot, base64Preview, newId, t) ==
  [id |-> newId,
   originalUrl |-> IF TruthyUrl(shot, "imageUrl") THEN shot.imageUrl ELSE shot.imageOriginalUrl,
   previewUrl |-> base64Preview, originalFileSize |-> 0, previewFileSize |-> 0, createdAt |-> t]

\* the ImageAsset built from the deprecated fields; base64Preview is what
\* compressImage resolves with when the shot has no imagePreviewUrl
LegacyVariation(shot, base64Preview, newId, t) ==
  LET orig == IF TruthyUrl(shot, "imageOriginalUrl") THEN shot.imageOriginalUrl
              ELSE IF TruthyUrl(shot, "imageUrl") THEN shot.imageUrl ELSE <<>>
      origSize == IF TruthyNum(shot, "imageOriginalFileSize") THEN shot.imageOriginalFileSize
                  ELSE calculateBase64Size(orig)
      prev == IF TruthyUrl(shot, "imagePreviewUrl") THEN shot.imagePreviewUrl
              ELSE base64Preview
      prevSize == IF TruthyUrl(shot, "imagePreviewUrl")
                  THEN (IF Has(shot, "imagePreviewFileSize") THEN shot.imagePreviewFileSize
                        ELSE Undefined)
                  ELSE calculateBase64Size(base64Preview)
  IN [id |-> newId, originalUrl |-> orig, previewUrl |-> prev,
      originalFileSize |-> origSize, previewFileSize |-> prevSize, createdAt |-> t]

\* if (!shot.settings) ... else if (!shot.settings.shotType) ...
BackfillSettings(shot) ==
  IF ~Has(shot, "settings") THEN Put(shot, "settings", DefaultSettings)
  ELSE IF ~Truthy(shot.settings, "shotType")
       THEN Put(shot, "settings", Put(shot.settings, "shotType", "Medium Shot"))
       ELSE shot

\* delete shot.imageUrl; delete shot.imageOriginalUrl; delete shot.imagePreviewUrl
Cleanup(shot) == Delete(Delete(Delete(shot, "imageUrl"), "imageOriginalUrl"), "imagePreviewUrl")

MigrateImportedShot(s, base64Preview, newId, t) ==
  LET shot == IF Has(s, "imageVariations") THEN s ELSE Put(s, "imageVariations", <<>>)
      withVariation ==
        IF NeedsVariation(shot)
        THEN Put(Put(shot, "imageVariations", <<LegacyVariation(shot, base64Preview, newId, t)>>),
                 "selectedVariationId", newId)
        ELSE shot
  IN Cleanup(BackfillSettings(withVariation))

\* the number of uuidv4() calls the migration of shots[1..n] makes
RECURSIVE MigrationIds(_, _)
MigrationIds(shots, n) ==
  IF n = 0 THEN 0
  ELSE MigrationIds(shots, n - 1) + (IF NeedsVariation(shots[n]) THEN 1 ELSE 0)

\* parsedProject.shots.map(migrate); compressImage resolves with the JPEG preview
\* when `compressed`, with the original payload when decoding fails
MigrateImportedShots(shots, compressed, firstId, t) ==
  [i \in 1..Len(shots) |->
     MigrateImportedShot(shots[i],
       IF compressed THEN <<"J", "J", "J", "=">>
       ELSE (IF TruthyUrl(shots[i], "imageOriginalUrl") THEN shots[i].imageOriginalUrl
             ELSE IF TruthyUrl(shots[i], "imageUrl") THEN shots[i].imageUrl ELSE <<>>),
       Uuid(firstId + MigrationIds(shots, i - 1)), t)]

\* the migration initializeData runs on every shot of a project found in
\* localStorage: the same variation and the same deletes, no settings
MigrateLegacyShot(s, base64Preview, newId, t) ==
  LET shot == IF Has(s, "imageVariations") THEN s ELSE Put(s, "imageVariations", <<>>)
      withVariation ==
        IF NeedsVariation(shot)
        THEN Put(Put(shot, "imageVariations", <<LegacyVariation(shot, base64Preview, newId, t)>>),
                 "selectedVariationId", newId)
        ELSE shot
  IN Cleanup(withVariation)

\* p.shots.map(migrate) of initializeData
MigrateLegacyShots(shots, compressed, firstId, t) ==
  [i \in 1..Len(shots) |->
     MigrateLegacyShot(shots[i],
       IF compressed THEN <<"J", "J", "J", "=">>
       ELSE (IF TruthyUrl(shots[i], "imageOriginalUrl") THEN shots[i].imageOriginalUrl
             ELSE IF TruthyUrl(shots[i], "imageUrl") THEN shots[i].imageUrl ELSE <<>>),
       Uuid(firstId + MigrationIds(shots, i - 1)), t)]

\* the number of uuidv4() calls the migration of parsed[1..n] makes
RECURSIVE LegacyIds(_, _)
LegacyIds(parsed, n) ==
  IF n = 0 THEN 0
  ELSE LegacyIds(parsed, n - 1) + MigrationIds(parsed[n].shots, Len(parsed[n].shots))

\* parsed.map(p => ({...p, shots: migratedShots}))
MigrateLegacyProjects(parsed, compressed, firstId, t) ==
  [i \in 1..Len(parsed) |->
     Put(parsed[i], "shots",
         MigrateLegacyShots(parsed[i].shots, compressed, firstId + LegacyIds(parsed, i - 1), t))]

\* ------------------------------------------------------------------------
\* The reducer: one pure transformation of a project per event.
\* `t` is the Date.now() reading of the event, `newId` its uuidv4() value.
\* ------------------------------------------------------------------------
NewShot(newId) ==
  [id |-> newId, shotNumber |-> 0, description |-> "new", visualPrompt |-> "A new scene",
   isGeneratingImage |-> FALSE, isUpdatingPrompt |-> FALSE,
   imageVariations |-> <<>>, settings |-> DefaultSettings]

\* an insertion that puts the new shot at the end of the list
AddShotAtEnd(project, previousShotId, newId, t) ==
  IF FindIndex(project.shots, previousShotId) = 0 THEN project
  ELSE Put(Put(project, "shots", Renumber(project.shots \o <<NewShot(newId)>>)), "updatedAt", t)

AddShotAfter(project, previousShotId, newId, t) ==
  LET shotIndex == FindIndex(project.shots, previousShotId)
      newShots == SubSeq(project.shots, 1, shotIndex) \o <<NewShot(newId)>>
                  \o SubSeq(project.shots, shotIndex + 1, Len(project.shots))
  IN IF shotIndex = 0 THEN project
     ELSE Put(Put(project, "shots", Renumber(newShots)), "updatedAt", t)

\* handleConfirmDeleteShot with remainingShots taken as the whole list
ConfirmDeleteShotKeeping(project, shotId, t) ==
  LET updatedTrashedShots == TrashedShots(project) \o <<Find(project.shots, shotId)>>
  IN IF FindIndex(project.shots, shotId) = 0 THEN project
     ELSE Put(Put(Put(project, "shots", Renumber(project.shots)),
                  "trashedShots", updatedTrashedShots), "updatedAt", t)

ConfirmDeleteShot(project, shotId, t) ==
  LET remainingShots == Filter(project.shots, LAMBDA s : s.id # shotId)
      updatedTrashedShots == TrashedShots(project) \o <<Find(project.shots, shotId)>>
  IN IF FindIndex(project.shots, shotId) = 0 THEN project
     ELSE Put(Put(Put(project, "shots", Renumber(remainingShots)),
                  "trashedShots", updatedTrashedShots), "updatedAt", t)

\* handleRestoreShot returning the sorted list as it is
RestoreShotUnnumbered(project, shotId, t) ==
  LET updatedTrashedShots == Filter(project.trashedShots, LAMBDA s : s.id # shotId)
      restoredShotsList ==
        SortByShotNumber(project.shots \o <<Find(project.trashedShots, shotId)>>)
  IN IF FindIndex(TrashedShots(project), shotId) = 0 THEN project
     ELSE Put(Put(Put(project, "shots", restoredShotsList),
                  "trashedShots", updatedTrashedShots), "updatedAt", t)

RestoreShot(project, shotId, t) ==
  LET updatedTrashedShots == Filter(project.trashedShots, LAMBDA s : s.id # shotId)
      restoredShotsList ==
        SortByShotNumber(project.shots \o <<Find(project.trashedShots, shotId)>>)
  IN IF FindIndex(TrashedShots(project), shotId) = 0 THEN project
     ELSE Put(Put(Put(project, "shots", Renumber(restoredShotsList)),
                  "trashedShots", updatedTrashedShots), "updatedAt", t)

PermanentlyDeleteShot(project, shotId, t) ==
  Put(Put(project, "trashedShots", Filter(TrashedShots(project), LAMBDA s : s.id # shotId)),
      "updatedAt", t)

\* an emptying that clears the active list with the trash
EmptyBoth(project, t) ==
  Put(Put(Put(project, "trashedShots", <<>>), "shots", <<>>), "updatedAt", t)

EmptyTrash(project, t) == Put(Put(project, "trashedShots", <<>>), "updatedAt", t)

SelectVariation(project, shotId, variationId, t) ==
  Put(Put(project, "updatedAt", t), "shots",
      Map(project.shots,
          LAMBDA s : IF s.id = shotId THEN Put(s, "selectedVariationId", variationId) ELSE s))

UpdateVisualPrompt(project, shotId, newPrompt, t) ==
  Put(Put(project, "shots",
          Map(project.shots,
              LAMBDA s : IF s.id = shotId THEN Put(s, "visualPrompt", newPrompt) ELSE s)),
      "updatedAt", t)

\* { ...s.settings, ...newSettings }
MergeSettings(settings, newSettings) ==
  [k \in DOMAIN settings \cup DOMAIN newSettings |->
     IF k \in DOMAIN newSettings THEN newSettings[k] ELSE settings[k]]

UpdateShotSettings(project, shotId, newSettings, t) ==
  Put(Put(project, "shots",
          Map(project.shots,
              LAMBDA s : IF s.id = shotId
                         THEN Put(s, "settings", MergeSettings(s.settings, newSettings))
                         ELSE s)),
      "updatedAt", t)

SaveProjectInfo(project, editedTitle, editedIdea, t) ==
  Put(Put(Put(project, "title", editedTitle), "idea", editedIdea), "updatedAt", t)

\* a flag patch that also writes the project's updatedAt
SetGeneratingTouching(project, shotId, flag) ==
  Put(Put(project, "updatedAt", project.updatedAt + 1), "shots",
      Map(project.shots,
          LAMBDA s : IF s.id = shotId THEN Put(s, "isGeneratingImage", flag) ELSE s))

\* the isGeneratingImage patch of handleGenerateImage and handleEditShotImage
SetGenerating(project, shotId, flag) ==
  Put(project, "shots",
      Map(project.shots,
          LAMBDA s : IF s.id = shotId THEN Put(s, "isGeneratingImage", flag) ELSE s))

\* a success patch that puts the new variations behind the previous ones
AppendVariations(project, shotId, newVariations, t) ==
  Put(Put(project, "updatedAt", t), "shots",
      Map(project.shots,
          LAMBDA s : IF s.id # shotId THEN s
                     ELSE Put(Put(Put(s, "imageVariations", s.imageVariations \o newVariations),
                                  "selectedVariationId", newVariations[1].id),
                              "isGeneratingImage", FALSE)))

\* a success patch that keeps the new variations only
ReplaceVariations(project, shotId, newVariations, t) ==
  Put(Put(project, "updatedAt", t), "shots",
      Map(project.shots,
          LAMBDA s : IF s.id # shotId THEN s
                     ELSE Put(Put(Put(s, "imageVariations", newVariations),
                                  "selectedVariationId", newVariations[1].id),
                              "isGeneratingImage", FALSE)))

\* the success patch of handleGenerateImage and of handleEditShotImage
PrependVariations(project, shotId, newVariations, t) ==
  Put(Put(project, "updatedAt", t), "shots",
      Map(project.shots,
          LAMBDA s : IF s.id # shotId THEN s
                     ELSE Put(Put(Put(s, "imageVariations", newVariations \o s.imageVariations),
                                  "selectedVariationId", newVariations[1].id),
                              "isGeneratingImage", FALSE)))

\* the optimistic patch of handleUpdateShotDescription
ApplyDescription(project, shotId, newDescription, t) ==
  Put(Put(project, "shots",
          Map(project.shots,
              LAMBDA s : IF s.id = shotId
                         THEN Put(Put(s, "description", newDescription), "isUpdatingPrompt", TRUE)
                         ELSE s)),
      "updatedAt", t)

\* a success patch that writes the prompt of every shot
ApplyPromptToAll(project, shotId, newVisualPrompt) ==
  Put(project, "shots",
      Map(project.shots,
          LAMBDA s : Put(Put(s, "visualPrompt", newVisualPrompt), "isUpdatingPrompt", FALSE)))

\* the success patch of handleUpdateShotDescription
ApplyRegeneratedPrompt(project, shotId, newVisualPrompt) ==
  Put(project, "shots",
      Map(project.shots,
          LAMBDA s : IF s.id = shotId
                     THEN Put(Put(s, "visualPrompt", newVisualPrompt), "isUpdatingPrompt", FALSE)
                     ELSE s))

\* a failure patch that also blanks the prompt
ClearStalePrompt(project, shotId) ==
  Put(project, "shots",
      Map(project.shots,
          LAMBDA s : IF s.id = shotId
                     THEN Put(Put(s, "visualPrompt", ""), "isUpdatingPrompt", FALSE)
                     ELSE s))

\* the failure patch of handleUpdateShotDescription
ClearUpdatingPrompt(project, shotId) ==
  Put(project, "shots",
      Map(project.shots,
          LAMBDA s : IF s.id = shotId THEN Put(s, "isUpdatingPrompt", FALSE) ELSE s))

\* a flag update that also clears the shot trash of the project
SetTrashedDroppingShots(project, flag, t) ==
  Put(Put(Put(project, "isTrashed", flag), "trashedShots", <<>>), "updatedAt", t)

\* handleDeleteProject / handleRestoreProject
SetTrashed(project, flag, t) == Put(Put(project, "isTrashed", flag), "updatedAt", t)

\* ------------------------------------------------------------------------
\* State
\* ------------------------------------------------------------------------
VARIABLES
  projects,               \* useState<Project[]>
  selectedProjectId,      \* useState<string | null>
  currentView,            \* useState<AppView>
  pendingShotDeletionId,  \* useState<string | null>
  confirmDialog,          \* useState<ConfirmDialogState | null>, the onConfirm closure
  ideaInput,              \* useState('')
  isApiBusy,              \* useState(false)
  apiThrottle,            \* useState(0)
  rateLimitCooldown,      \* useState(0)
  apiKeyStatus,           \* useState<ApiKeyStatus>('active')
  globalError,            \* useState<string | null>
  aiOps,                  \* the async handlers suspended at their collaborator call
  prevProjectsRef,        \* useRef<Project[] | null>(null)
  saveTimers,             \* the pending setTimeout calls of the auto-save effect
  quiet,                  \* history: debounce ticks since the last setProjects
  dbOps,                  \* Gateway operations issued and not yet settled
  stored,                 \* the records the Gateway holds
  saveErrors,             \* console.error("Auto-save failed for project", ...): the projects named
  localData,              \* localStorage.getItem('cinevision_projects')
  loaded,                 \* initializeData has run
  now,                    \* Date.now()
  nextId,                 \* the next uuidv4()
  lastOp,                 \* history: the last event that wrote state other than the dialogs'
  everShots               \* history: <<project id, shot id>> of every shot a project held

uiVars == <<selectedProjectId, currentView, pendingShotDeletionId, confirmDialog, ideaInput>>
apiVars == <<isApiBusy, apiThrottle, rateLimitCooldown, apiKeyStatus, globalError>>
dbVars == <<prevProjectsRef, dbOps, stored, saveErrors, localData>>
envVars == <<now, nextId>>
projVars == <<projects, saveTimers, quiet, everShots>>
vars == <<projects, saveTimers, quiet, uiVars, apiVars, aiOps, dbVars, loaded, envVars, lastOp, everShots>>

NoDialog == [kind |-> "none"]

\* localStorage holds no 'cinevision_projects' item
NoLocalData == [none |-> TRUE]
NoSnapshot == [held |-> FALSE, value |-> <<>>]

ShotPairs(ps) ==
  UNION {{<<ps[i].id, sid>> : sid \in Ids(ps[i].shots) \cup Ids(TrashedShots(ps[i]))}
         : i \in 1..Len(ps)}

\* the effect without its cleanup
KeepTimeout(timers, captured) == timers

\* return () => clearTimeout(saveTimeout): the cleanup of the effect run for
\* `captured`; the run for an empty collection returned early, without a cleanup
ClearTimeout(timers, captured) ==
  IF Len(captured) = 0 THEN timers ELSE {t \in timers : t.projects # captured}

\* if (projects.length === 0) return; const saveTimeout = setTimeout(..., 1000)
ArmTimeout(captured) ==
  IF Len(captured) = 0 THEN {} ELSE {[projects |-> captured, remaining |-> DebounceTicks]}

\* the auto-save effect on a change of `projects`: the cleanup of the previous
\* run, then the new run
RunEffect(timers, previous, next) == ClearTimeout(timers, previous) \cup ArmTimeout(next)

\* setProjects(next) and the re-render it causes
SetProjects(next) ==
  /\ projects' = next
  /\ saveTimers' = RunEffect(saveTimers, projects, next)
  /\ quiet' = 0
  /\ everShots' = everShots \cup ShotPairs(next)

\* prev.map(p => p.id !== pid ? p : f(p))
MapProject(ps, pid, f(_)) == Map(ps, LAMBDA p : IF p.id # pid THEN p ELSE f(p))

currentProject == Find(projects, selectedProjectId)
HasCurrentProject == FindIndex(projects, selectedProjectId) # 0

\* a fixed overlay covers the page while a dialog is open
ModalOpen == pendingShotDeletionId # Undefined \/ confirmDialog # NoDialog

\* the shot list of the project detail view is rendered
DetailView == currentView = PROJECT_DETAIL /\ HasCurrentProject /\ ~ModalOpen


\* ------------------------------------------------------------------------
\* Initial state: the component after construction, over a database that
\* earlier sessions of the application may have left
\* ------------------------------------------------------------------------
PngA == <<"A", "A", "A", "A">>
PngB == <<"B", "B", "=", "=">>
Jpeg == <<"J", "J", "J", "=">>

StoredShot1 ==
  [id |-> "s1", shotNumber |-> 1, description |-> "d1", visualPrompt |-> "v1",
   imageVariations |-> <<[id |-> "a1", originalUrl |-> PngA, previewUrl |-> Jpeg,
                          originalFileSize |-> 12, previewFileSize |-> 8, createdAt |-> 0]>>,
   selectedVariationId |-> "a1",
   isGeneratingImage |-> FALSE, isUpdatingPrompt |-> FALSE, settings |-> DefaultSettings]

StoredShot2 ==
  [id |-> "s2", shotNumber |-> 2, description |-> "d2", visualPrompt |-> "v2",
   imageVariations |-> <<>>, selectedVariationId |-> Undefined,
   isGeneratingImage |-> FALSE, isUpdatingPrompt |-> FALSE, settings |-> DefaultSettings]

StoredShot3 == [StoredShot2 EXCEPT !.id = "s3", !.description = "d3"]

StoredProject ==
  [id |-> "p1", title |-> "film", idea |-> "film", shots |-> <<StoredShot1, StoredShot2>>,
   trashedShots |-> <<StoredShot3>>, createdAt |-> 0, updatedAt |-> 0, isTrashed |-> FALSE]

InitialStores == {{}, {StoredProject}}

Constructed ==
  /\ projects = <<>>
  /\ selectedProjectId = Undefined
  /\ currentView = DASHBOARD
  /\ pendingShotDeletionId = Undefined
  /\ confirmDialog = NoDialog
  /\ ideaInput = ""
  /\ isApiBusy = FALSE
  /\ apiThrottle = 0
  /\ rateLimitCooldown = 0
  /\ apiKeyStatus = "active"
  /\ globalError = Undefined
  /\ aiOps = {}
  /\ prevProjectsRef = NoSnapshot
  /\ saveTimers = {}
  /\ quiet = 0
  /\ dbOps = {}
  /\ stored \in InitialStores
  /\ saveErrors = {}
  /\ loaded = FALSE
  /\ now = 1
  /\ nextId = 1
  /\ lastOp = [name |-> "init"]
  /\ everShots = {}

\* the application opened in a browser that holds no legacy data
Init == Constructed /\ localData = NoLocalData

\* db.getProjects(): the stored records, as a sequence
GetProjects(records) ==
  CHOOSE seq \in [1..Cardinality(records) -> records] :
    \A r \in records : \E i \in 1..Cardinality(records) : seq[i] = r

\* db.saveAllProjects(ps) resolved: one record per project of ps[1..n]
RECURSIVE SaveAllProjects(_, _, _)
SaveAllProjects(records, ps, n) ==
  IF n = 0 THEN records
  ELSE {r \in SaveAllProjects(records, ps, n - 1) : r.id # ps[n].id} \cup {ps[n]}

\* initializeData: the legacy item of localStorage, when it parses and the
\* save resolves (`saved`), is migrated into the database and removed; then
\* setProjects(await db.getProjects())
\* how the migration block of initializeData ends: without legacy data it is
\* skipped; JSON.parse, p.shots.map or db.saveAllProjects may throw
LegacyOutcome(local, saved) ==
  IF local = NoLocalData THEN "none"
  ELSE IF ~Has(local, "json") THEN "parse failed"
  ELSE IF \E i \in 1..Len(local.json) : ~Has(local.json[i], "shots") THEN "migration failed"
  ELSE IF ~saved THEN "save failed"
  ELSE "migrated"

\* a removal that does not wait for the save
RemovedBeforeSave(local, outcome) ==
  IF outcome \in {"migrated", "save failed"} THEN NoLocalData ELSE local

\* localStorage.removeItem('cinevision_projects') is the statement after the
\* awaited save
RemainingLocalData(local, outcome) == IF outcome = "migrated" THEN NoLocalData ELSE local

initializeData ==
  /\ ~loaded
  /\ loaded' = TRUE
  /\ \E compressed \in BOOLEAN, saved \in BOOLEAN :
       IF LegacyOutcome(localData, saved) = "migrated"
       THEN LET parsed == localData.json
                migrated == MigrateLegacyProjects(parsed, compressed, nextId, now)
                n == LegacyIds(parsed, Len(parsed))
            IN /\ stored' = SaveAllProjects(stored, migrated, Len(migrated))
               /\ localData' = RemainingLocalData(localData, "migrated")
               /\ SetProjects(GetProjects(SaveAllProjects(stored, migrated, Len(migrated))))
               /\ nextId' = nextId + n
               /\ now' = IF n > 0 THEN now + 1 ELSE now
               /\ lastOp' = [name |-> "initializeData", legacy |-> parsed,
                             migrated |-> migrated]
       ELSE /\ SetProjects(GetProjects(stored))
            /\ localData' = RemainingLocalData(localData, LegacyOutcome(localData, saved))
            /\ lastOp' = IF localData = NoLocalData THEN [name |-> "initializeData"]
                         ELSE [name |-> "initializeData",
                               failure |-> LegacyOutcome(localData, saved)]
            /\ UNCHANGED <<stored, envVars>>
  /\ UNCHANGED <<uiVars, apiVars, aiOps, prevProjectsRef, dbOps, saveErrors>>

\* a user event reaches a handler of the page
UserEvent == loaded /\ ~ModalOpen

\* ------------------------------------------------------------------------
\* Navigation
\* ------------------------------------------------------------------------
\* ProjectCard onSelect
SelectProject(id) ==
  /\ UserEvent /\ currentView = DASHBOARD
  /\ FindIndex(projects, id) # 0 /\ ~Find(projects, id).isTrashed
  /\ selectedProjectId' = id
  /\ currentView' = PROJECT_DETAIL
  /\ UNCHANGED lastOp
  /\ UNCHANGED <<projVars, pendingShotDeletionId, confirmDialog,
                 ideaInput, apiVars, aiOps, dbVars, loaded, envVars>>

\* the header's back button
BackToDashboard ==
  /\ UserEvent /\ currentView = PROJECT_DETAIL
  /\ currentView' = DASHBOARD
  /\ globalError' = Undefined
  /\ rateLimitCooldown' = 0
  /\ UNCHANGED lastOp
  /\ UNCHANGED <<projVars, selectedProjectId, pendingShotDeletionId,
                 confirmDialog, ideaInput, isApiBusy, apiThrottle, apiKeyStatus, aiOps,
                 dbVars, loaded, envVars>>

\* the close button of the banner the detail view shows while
\* rateLimitCooldown > 0 || globalError
DismissBanner ==
  /\ UserEvent /\ DetailView
  /\ rateLimitCooldown > 0 \/ globalError \notin {Undefined, ""}
  /\ globalError' = Undefined
  /\ rateLimitCooldown' = 0
  /\ UNCHANGED lastOp
  /\ UNCHANGED <<projVars, uiVars, isApiBusy, apiThrottle, apiKeyStatus, aiOps,
                 dbVars, loaded, envVars>>

\* ------------------------------------------------------------------------
\* Shot handlers
\* ------------------------------------------------------------------------
\* the frame of a handler that only calls setProjects and reads Date.now()
ReducerFrame ==
  /\ now' = now + 1
  /\ UNCHANGED <<uiVars, apiVars, aiOps, dbVars, loaded>>

handleAddShotAfter(previousShotId) ==
  /\ UserEvent /\ DetailView /\ now < MaxNow /\ nextId <= MaxIds
  /\ Len(currentProject.shots) < MaxShots
  /\ SetProjects(MapProject(projects, selectedProjectId,
                             LAMBDA p : AddShotAfter(p, previousShotId, Uuid(nextId), now)))
  /\ IF previousShotId \in Ids(currentProject.shots)
     THEN nextId' = nextId + 1 /\ now' = now + 1
     ELSE UNCHANGED <<nextId, now>>
  /\ lastOp' = [name |-> "handleAddShotAfter", pid |-> selectedProjectId,
                sid |-> previousShotId]
  /\ UNCHANGED <<uiVars, apiVars, aiOps, dbVars, loaded>>

\* the ids and the numbers of a shot list, in the order of the list
Placement(shots) ==
  [i \in 1..Len(shots) |-> [id |-> shots[i].id, shotNumber |-> shots[i].shotNumber]]

handleInitiateDeleteShot(shotId) ==
  /\ UserEvent /\ DetailView
  /\ shotId \in Ids(currentProject.shots)
  /\ pendingShotDeletionId' = shotId
  /\ UNCHANGED lastOp
  /\ UNCHANGED <<projVars, selectedProjectId, currentView,
                 confirmDialog, ideaInput, apiVars, aiOps, dbVars, loaded, envVars>>

handleCancelDeleteShot ==
  /\ loaded /\ pendingShotDeletionId # Undefined
  /\ pendingShotDeletionId' = Undefined
  /\ UNCHANGED lastOp
  /\ UNCHANGED <<projVars, selectedProjectId, currentView,
                 confirmDialog, ideaInput, apiVars, aiOps, dbVars, loaded, envVars>>

handleConfirmDeleteShot ==
  /\ loaded /\ pendingShotDeletionId # Undefined /\ now < MaxNow
  /\ IF selectedProjectId = Undefined
     THEN UNCHANGED <<projVars, pendingShotDeletionId, now>>
     ELSE /\ SetProjects(MapProject(projects, selectedProjectId,
                 LAMBDA p : ConfirmDeleteShot(p, pendingShotDeletionId, now)))
          /\ pendingShotDeletionId' = Undefined
          /\ now' = now + 1
  /\ lastOp' = [name |-> "handleConfirmDeleteShot", pid |-> selectedProjectId,
                sid |-> pendingShotDeletionId,
                before |-> IF HasCurrentProject THEN Placement(currentProject.shots)
                           ELSE <<>>]
  /\ UNCHANGED <<selectedProjectId, currentView, confirmDialog, ideaInput, apiVars, aiOps,
                 dbVars, loaded, nextId>>

handleRestoreShot(shotId) ==
  /\ UserEvent /\ DetailView /\ now < MaxNow
  /\ SetProjects(MapProject(projects, selectedProjectId,
                             LAMBDA p : RestoreShot(p, shotId, now)))
  /\ lastOp' = [name |-> "handleRestoreShot", pid |-> selectedProjectId, sid |-> shotId]
  /\ UNCHANGED nextId
  /\ ReducerFrame

handleSelectVariation(shotId, variationId) ==
  /\ UserEvent /\ DetailView /\ now < MaxNow
  /\ SetProjects(MapProject(projects, selectedProjectId,
                             LAMBDA p : SelectVariation(p, shotId, variationId, now)))
  /\ lastOp' = [name |-> "handleSelectVariation", pid |-> selectedProjectId,
                sid |-> shotId, vid |-> variationId]
  /\ UNCHANGED nextId
  /\ ReducerFrame

handleUpdateVisualPrompt(shotId, newPrompt) ==
  /\ UserEvent /\ DetailView /\ now < MaxNow
  /\ SetProjects(MapProject(projects, selectedProjectId,
                             LAMBDA p : UpdateVisualPrompt(p, shotId, newPrompt, now)))
  /\ lastOp' = [name |-> "handleUpdateVisualPrompt", pid |-> selectedProjectId,
                sid |-> shotId]
  /\ UNCHANGED nextId
  /\ ReducerFrame

handleUpdateShotSettings(shotId, newSettings) ==
  /\ UserEvent /\ DetailView /\ now < MaxNow
  /\ SetProjects(MapProject(projects, selectedProjectId,
                             LAMBDA p : UpdateShotSettings(p, shotId, newSettings, now)))
  /\ lastOp' = [name |-> "handleUpdateShotSettings", pid |-> selectedProjectId,
                sid |-> shotId]
  /\ UNCHANGED nextId
  /\ ReducerFrame

\* requestConfirmation({..., onConfirm}) of handlePermanentlyDeleteShot
handlePermanentlyDeleteShot(shotId) ==
  /\ UserEvent /\ DetailView
  /\ confirmDialog' = [kind |-> "deleteShot", pid |-> selectedProjectId, sid |-> shotId]
  /\ UNCHANGED lastOp
  /\ UNCHANGED <<projVars, selectedProjectId, currentView,
                 pendingShotDeletionId, ideaInput, apiVars, aiOps, dbVars, loaded, envVars>>

\* requestConfirmation({..., onConfirm}) of handleEmptyTrash
handleEmptyTrash ==
  /\ UserEvent /\ DetailView
  /\ Len(TrashedShots(currentProject)) > 0
  /\ confirmDialog' = [kind |-> "emptyTrash", pid |-> selectedProjectId]
  /\ UNCHANGED lastOp
  /\ UNCHANGED <<projVars, selectedProjectId, currentView,
                 pendingShotDeletionId, ideaInput, apiVars, aiOps, dbVars, loaded, envVars>>

\* ------------------------------------------------------------------------
\* Project handlers
\* ------------------------------------------------------------------------
handleDeleteProject(id) ==
  /\ UserEvent /\ currentView = DASHBOARD /\ now < MaxNow
  /\ FindIndex(projects, id) # 0 /\ ~Find(projects, id).isTrashed
  /\ SetProjects(Map(projects, LAMBDA p : IF p.id = id THEN SetTrashed(p, TRUE, now) ELSE p))
  /\ IF selectedProjectId = id
     THEN selectedProjectId' = Undefined /\ currentView' = DASHBOARD
     ELSE UNCHANGED <<selectedProjectId, currentView>>
  /\ now' = now + 1
  /\ lastOp' = [name |-> "handleDeleteProject", pid |-> id,
                before |-> Delete(Find(projects, id), "updatedAt")]
  /\ UNCHANGED <<pendingShotDeletionId, confirmDialog, ideaInput, apiVars, aiOps, dbVars,
                 loaded, nextId>>

handleRestoreProject(id) ==
  /\ UserEvent /\ now < MaxNow
  /\ FindIndex(projects, id) # 0 /\ Find(projects, id).isTrashed
  /\ SetProjects(Map(projects, LAMBDA p : IF p.id = id THEN SetTrashed(p, FALSE, now) ELSE p))
  /\ lastOp' = [name |-> "handleRestoreProject", pid |-> id]
  /\ UNCHANGED nextId
  /\ ReducerFrame

\* requestConfirmation({..., onConfirm}) of handlePermanentlyDeleteProject
handlePermanentlyDeleteProject(id) ==
  /\ UserEvent
  /\ FindIndex(projects, id) # 0 /\ Find(projects, id).isTrashed
  /\ confirmDialog' = [kind |-> "deleteProject", id |-> id]
  /\ UNCHANGED lastOp
  /\ UNCHANGED <<projVars, selectedProjectId, currentView,
                 pendingShotDeletionId, ideaInput, apiVars, aiOps, dbVars, loaded, envVars>>

\* requestConfirmation({..., onConfirm}) of handleEmptyProjectTrash; the closure
\* holds the `projects` of the render that opened the dialog
handleEmptyProjectTrash ==
  /\ UserEvent
  /\ \E i \in 1..Len(projects) : projects[i].isTrashed
  /\ confirmDialog' = [kind |-> "emptyProjectTrash",
                       ids |-> Ids(Filter(projects, LAMBDA p : p.isTrashed))]
  /\ UNCHANGED lastOp
  /\ UNCHANGED <<projVars, selectedProjectId, currentView,
                 pendingShotDeletionId, ideaInput, apiVars, aiOps, dbVars, loaded, envVars>>

\* a handler whose map has no `p.id !== selectedProjectId` test
SaveProjectInfoEverywhere(editedTitle, editedIdea) ==
  /\ UserEvent /\ DetailView /\ now < MaxNow
  /\ SetProjects(Map(projects, LAMBDA p : SaveProjectInfo(p, editedTitle, editedIdea, now)))
  /\ lastOp' = [name |-> "handleSaveProjectInfo", pid |-> selectedProjectId]
  /\ UNCHANGED nextId
  /\ ReducerFrame

\* handleSaveProjectInfo: title and idea of the project on screen
handleSaveProjectInfo(editedTitle, editedIdea) ==
  /\ UserEvent /\ DetailView /\ now < MaxNow
  /\ SetProjects(Map(projects, LAMBDA p : IF p.id = selectedProjectId
                                          THEN SaveProjectInfo(p, editedTitle, editedIdea, now)
                                          ELSE p))
  /\ lastOp' = [name |-> "handleSaveProjectInfo", pid |-> selectedProjectId]
  /\ UNCHANGED nextId
  /\ ReducerFrame

\* ------------------------------------------------------------------------
\* The confirm dialog
\* ------------------------------------------------------------------------
\* the setProjects call of the dialog's onConfirm
ConfirmedProjects(dialog, ps, t) ==
  CASE dialog.kind = "deleteShot" ->
         MapProject(ps, dialog.pid, LAMBDA p : PermanentlyDeleteShot(p, dialog.sid, t))
    [] dialog.kind = "emptyTrash" ->
         MapProject(ps, dialog.pid, LAMBDA p : EmptyTrash(p, t))
    [] dialog.kind = "deleteProject" -> Filter(ps, LAMBDA p : p.id # dialog.id)
    [] dialog.kind = "emptyProjectTrash" -> Filter(ps, LAMBDA p : ~p.isTrashed)

\* an onConfirm that calls db.deleteProject for a single project only
ConfirmedDeletesSingle(dialog) ==
  IF dialog.kind = "deleteProject" THEN {[op |-> "delete", id |-> dialog.id]} ELSE {}

\* the db.deleteProject calls of the dialog's onConfirm
ConfirmedDeletes(dialog) ==
  CASE dialog.kind = "deleteProject" -> {[op |-> "delete", id |-> dialog.id]}
    [] dialog.kind = "emptyProjectTrash" -> {[op |-> "delete", id |-> id] : id \in dialog.ids}
    [] OTHER -> {}

\* confirmDialog.onConfirm(); setConfirmDialog(null)
ConfirmDialogConfirm ==
  /\ loaded /\ confirmDialog # NoDialog
  /\ confirmDialog.kind \in {"deleteShot", "emptyTrash"} => now < MaxNow
  /\ SetProjects(ConfirmedProjects(confirmDialog, projects, now))
  /\ Cardinality(dbOps \cup ConfirmedDeletes(confirmDialog)) <= MaxInFlight
  /\ dbOps' = dbOps \cup ConfirmedDeletes(confirmDialog)
  /\ now' = IF confirmDialog.kind \in {"deleteShot", "emptyTrash"} THEN now + 1 ELSE now
  /\ confirmDialog' = NoDialog
  /\ lastOp' = [name |-> "ConfirmDialogConfirm", dialog |-> confirmDialog]
  /\ UNCHANGED <<selectedProjectId, currentView, pendingShotDeletionId, ideaInput, apiVars,
                 aiOps, prevProjectsRef, stored, saveErrors, localData, loaded, nextId>>

\* setConfirmDialog(null) of the cancel button and of the overlay
ConfirmDialogCancel ==
  /\ loaded /\ confirmDialog # NoDialog
  /\ confirmDialog' = NoDialog
  /\ UNCHANGED lastOp
  /\ UNCHANGED <<projVars, selectedProjectId, currentView,
                 pendingShotDeletionId, ideaInput, apiVars, aiOps, dbVars, loaded, envVars>>

\* ------------------------------------------------------------------------
\* AI operations: each handler is admitted by its guard, suspends at the
\* collaborator call and completes in a later step with the call's outcome
\* ------------------------------------------------------------------------
RateLimitMessage == "429 RESOURCE_EXHAUSTED"
AuthMessage == "403 PERMISSION_DENIED"
OtherMessage == "network error"
NoImageMessage == "no image could be generated"

\* upperMsg.includes("429") || includes("RESOURCE_EXHAUSTED") || includes("RATE LIMIT")
IsRateLimit(message) == message \in {RateLimitMessage}

\* upperMsg.includes("PERMISSION_DENIED") || includes("API_KEY") || includes("403")
IsAuth(message) == message \in {AuthMessage}

\* handleApiError
handleApiError(message) ==
  IF IsRateLimit(message)
  THEN /\ rateLimitCooldown' = CooldownSeconds
       /\ apiKeyStatus' = "warning"
       /\ globalError' = Undefined
  ELSE IF IsAuth(message)
  THEN /\ apiKeyStatus' = "error"
       /\ globalError' = message
       /\ UNCHANGED rateLimitCooldown
  ELSE /\ globalError' = message
       /\ UNCHANGED <<apiKeyStatus, rateLimitCooldown>>

\* if (apiKeyStatus === 'warning') setApiKeyStatus('active'), on the value the
\* handler's closure captured
ResetStatusOnSuccess(op) ==
  /\ apiKeyStatus' = IF op.keyStatus = "warning" THEN "active" ELSE apiKeyStatus
  /\ UNCHANGED <<rateLimitCooldown, globalError>>

\* a finally block that clears the flag and leaves the throttle alone
FinallyWithoutThrottle(op) ==
  /\ isApiBusy' = FALSE
  /\ apiThrottle' = apiThrottle
  /\ aiOps' = aiOps \ {op}

\* finally { setIsApiBusy(false); setApiThrottle(3); }
Finally(op) ==
  /\ isApiBusy' = FALSE
  /\ apiThrottle' = ThrottleSeconds
  /\ aiOps' = aiOps \ {op}

\* a guard that does not read the busy flag
AdmittedWhileBusy == apiThrottle = 0

\* the guard shared by the AI handlers
Admitted == ~isApiBusy /\ apiThrottle = 0

\* setGlobalError(null); setIsApiBusy(true)
Admit(op) ==
  /\ globalError' = Undefined
  /\ isApiBusy' = TRUE
  /\ aiOps' = aiOps \cup {op}
  /\ UNCHANGED <<apiThrottle, rateLimitCooldown, apiKeyStatus>>

\* !ideaInput.trim()
Blank(text) == text \in {"", " "}

\* ideaInput.slice(0, 30) + (ideaInput.length > 30 ? '...' : '')
TitleOf(idea) == IF Len(idea) > 30 THEN "long idea..." ELSE idea

\* the idea input's onChange
TypeIdea(text) ==
  /\ UserEvent /\ currentView = DASHBOARD
  /\ ideaInput # text
  /\ ideaInput' = text
  /\ UNCHANGED lastOp
  /\ UNCHANGED <<projVars, selectedProjectId, currentView,
                 pendingShotDeletionId, confirmDialog, apiVars, aiOps, dbVars, loaded, envVars>>

\* disabled={isApiBusy || !ideaInput.trim() || rateLimitCooldown > 0 || apiThrottle > 0}
CreateDisabled == isApiBusy \/ Blank(ideaInput) \/ rateLimitCooldown > 0 \/ apiThrottle > 0

\* the create button's onClick
handleCreateProject ==
  /\ UserEvent /\ currentView = DASHBOARD /\ ~CreateDisabled
  /\ ~Blank(ideaInput) /\ Admitted
  /\ Admit([kind |-> "create", idea |-> ideaInput, keyStatus |-> apiKeyStatus])
  /\ lastOp' = [name |-> "handleCreateProject"]
  /\ UNCHANGED <<projVars, uiVars, dbVars, loaded, envVars>>

\* shotsData.map(s => ({ id: uuidv4(), shotNumber: s.shotNumber, ... }))
BreakdownShots(shotsData, firstId) ==
  [i \in 1..Len(shotsData) |->
     [id |-> Uuid(firstId + i - 1), shotNumber |-> shotsData[i].shotNumber,
      description |-> shotsData[i].description, visualPrompt |-> shotsData[i].visualPrompt,
      imageVariations |-> <<>>, selectedVariationId |-> Undefined,
      isGeneratingImage |-> FALSE, isUpdatingPrompt |-> FALSE, settings |-> DefaultSettings]]

NewProject(idea, shotsData, firstId, t) ==
  [id |-> Uuid(firstId + Len(shotsData)), title |-> TitleOf(idea), idea |-> idea,
   shots |-> BreakdownShots(shotsData, firstId), trashedShots |-> <<>>,
   createdAt |-> t, updatedAt |-> t, isTrashed |-> FALSE]

\* generateScriptBreakdown resolved with shotsData
CreateProjectSucceeds(op, shotsData) ==
  /\ op \in aiOps /\ op.kind = "create"
  /\ now < MaxNow /\ nextId + Len(shotsData) <= MaxIds /\ Len(projects) < MaxProjects
  /\ SetProjects(<<NewProject(op.idea, shotsData, nextId, now)>> \o projects)
  /\ selectedProjectId' = Uuid(nextId + Len(shotsData))
  /\ currentView' = PROJECT_DETAIL
  /\ ideaInput' = ""
  /\ ResetStatusOnSuccess(op)
  /\ Finally(op)
  /\ nextId' = nextId + Len(shotsData) + 1
  /\ now' = now + 1
  /\ lastOp' = [name |-> "CreateProjectSucceeds", pid |-> Uuid(nextId + Len(shotsData))]
  /\ UNCHANGED <<pendingShotDeletionId, confirmDialog, dbVars, loaded>>

\* the collaborator call of any AI handler rejected with error.message; the handlers
\* of a shot then clear the flag they set
AiCallFails(op, message) ==
  /\ op \in aiOps /\ op.kind # "generate"
  /\ handleApiError(message)
  /\ Finally(op)
  /\ CASE op.kind = "edit" ->
             SetProjects(MapProject(projects, op.pid,
                                    LAMBDA p : SetGenerating(p, op.sid, FALSE)))
       [] op.kind = "description" ->
             SetProjects(MapProject(projects, op.pid,
                                    LAMBDA p : ClearUpdatingPrompt(p, op.sid)))
       [] OTHER -> UNCHANGED <<projVars>>
  /\ lastOp' = [name |-> "AiCallFails", op |-> op, message |-> message]
  /\ UNCHANGED <<uiVars, dbVars, loaded, envVars>>

\* the reference image of handleGenerateImage: the custom upload, else the
\* selected variation of the reference shot, else none (the empty payload)
ResolveReference(project, referenceShotId, customReferenceBase64) ==
  LET refShot == Find(project.shots, referenceShotId)
      activeVar == Find(refShot.imageVariations, refShot.selectedVariationId)
  IN IF customReferenceBase64 # <<>> THEN customReferenceBase64
     ELSE IF referenceShotId = Undefined \/ FindIndex(project.shots, referenceShotId) = 0
     THEN <<>>
     ELSE IF ~Truthy(refShot, "selectedVariationId") THEN <<>>
     ELSE IF FindIndex(refShot.imageVariations, refShot.selectedVariationId) = 0 THEN <<>>
     ELSE activeVar.originalUrl

handleGenerateImage(shotId, referenceShotId, customReferenceBase64) ==
  /\ UserEvent /\ DetailView /\ Admitted
  /\ shotId \in Ids(currentProject.shots)
  /\ Admit([kind |-> "generate", pid |-> selectedProjectId, sid |-> shotId,
            reference |-> ResolveReference(currentProject, referenceShotId,
                                           customReferenceBase64),
            keyStatus |-> apiKeyStatus])
  /\ SetProjects(MapProject(projects, selectedProjectId,
                             LAMBDA p : SetGenerating(p, shotId, TRUE)))
  /\ lastOp' = [name |-> "handleGenerateImage", pid |-> selectedProjectId, sid |-> shotId]
  /\ UNCHANGED <<uiVars, dbVars, loaded, envVars>>

\* a collection that takes the outcome of every attempt for an image
SettledOutcomes(results) == results

\* the images of the fulfilled attempts, in the order of the attempts
SuccessfulImages(results) == Filter(results, LAMBDA r : r # <<>>)

\* newVariations: processAndSaveImage of every successful image; compressImage
\* resolves with the JPEG preview, or with the original when decoding fails
NewVariations(images, compressed, firstId, t) ==
  [i \in 1..Len(images) |->
     processAndSaveImage(images[i], IF compressed[i] THEN Jpeg ELSE images[i],
                         Uuid(firstId + i - 1), t)]

\* Promise.allSettled([promise1, promise2]) settled: results[i] is the image of
\* attempt i, or the empty payload when the attempt was rejected, and reason is
\* the error.message of the rejected attempts
GenerateSettles(op, results, compressed, reason) ==
  /\ op \in aiOps /\ op.kind = "generate"
  /\ IF Len(SuccessfulImages(results)) = 0
     THEN /\ handleApiError(NoImageMessage)
          /\ SetProjects(MapProject(projects, op.pid,
                                     LAMBDA p : SetGenerating(p, op.sid, FALSE)))
          /\ UNCHANGED envVars
     ELSE /\ now < MaxNow /\ nextId + Len(SuccessfulImages(results)) - 1 <= MaxIds
          /\ SetProjects(MapProject(projects, op.pid,
                LAMBDA p : PrependVariations(p, op.sid,
                             NewVariations(SuccessfulImages(results), compressed, nextId, now),
                             now)))
          /\ ResetStatusOnSuccess(op)
          /\ nextId' = nextId + Len(SuccessfulImages(results))
          /\ now' = now + 1
  /\ Finally(op)
  /\ lastOp' = [name |-> "GenerateSettles", op |-> op, results |-> results,
                images |-> Len(SuccessfulImages(results)),
                reason |-> IF Len(SuccessfulImages(results)) = Len(results)
                           THEN Undefined ELSE reason]
  /\ UNCHANGED <<uiVars, dbVars, loaded>>

handleEditShotImage(shotId, instruction) ==
  /\ UserEvent /\ DetailView /\ Admitted
  /\ shotId \in Ids(currentProject.shots)
  /\ LET shot == Find(currentProject.shots, shotId)
     IN /\ Truthy(shot, "selectedVariationId")
        /\ FindIndex(shot.imageVariations, shot.selectedVariationId) # 0
        /\ Admit([kind |-> "edit", pid |-> selectedProjectId, sid |-> shotId,
                  original |-> Find(shot.imageVariations, shot.selectedVariationId).originalUrl,
                  instruction |-> instruction, keyStatus |-> apiKeyStatus])
  /\ SetProjects(MapProject(projects, selectedProjectId,
                             LAMBDA p : SetGenerating(p, shotId, TRUE)))
  /\ lastOp' = [name |-> "handleEditShotImage", pid |-> selectedProjectId, sid |-> shotId]
  /\ UNCHANGED <<uiVars, dbVars, loaded, envVars>>

\* editShotImage resolved with editedImageBase64
EditSucceeds(op, editedImageBase64, compressed) ==
  /\ op \in aiOps /\ op.kind = "edit"
  /\ now < MaxNow /\ nextId <= MaxIds
  /\ SetProjects(MapProject(projects, op.pid,
        LAMBDA p : PrependVariations(p, op.sid,
                     NewVariations(<<editedImageBase64>>, <<compressed>>, nextId, now), now)))
  /\ ResetStatusOnSuccess(op)
  /\ Finally(op)
  /\ nextId' = nextId + 1
  /\ now' = now + 1
  /\ lastOp' = [name |-> "EditSucceeds", op |-> op]
  /\ UNCHANGED <<uiVars, dbVars, loaded>>

handleUpdateShotDescription(shotId, newDescription) ==
  /\ UserEvent /\ DetailView /\ Admitted /\ now < MaxNow
  /\ Admit([kind |-> "description", pid |-> selectedProjectId, sid |-> shotId,
            description |-> newDescription, keyStatus |-> apiKeyStatus])
  /\ SetProjects(MapProject(projects, selectedProjectId,
                             LAMBDA p : ApplyDescription(p, shotId, newDescription, now)))
  /\ now' = now + 1
  /\ lastOp' = [name |-> "handleUpdateShotDescription", pid |-> selectedProjectId,
                sid |-> shotId]
  /\ UNCHANGED <<uiVars, dbVars, loaded, nextId>>

\* regenerateVisualPrompt resolved with newVisualPrompt
DescriptionSucceeds(op, newVisualPrompt) ==
  /\ op \in aiOps /\ op.kind = "description"
  /\ SetProjects(MapProject(projects, op.pid,
                             LAMBDA p : ApplyRegeneratedPrompt(p, op.sid, newVisualPrompt)))
  /\ ResetStatusOnSuccess(op)
  /\ Finally(op)
  /\ lastOp' = [name |-> "DescriptionSucceeds", op |-> op, prompt |-> newVisualPrompt]
  /\ UNCHANGED <<uiVars, dbVars, loaded, envVars>>

handleGetSuggestionsForShot(projectIdea, currentDescription) ==
  /\ UserEvent /\ DetailView /\ Admitted
  /\ Admit([kind |-> "suggestions", idea |-> projectIdea,
            description |-> currentDescription, keyStatus |-> apiKeyStatus])
  /\ lastOp' = [name |-> "handleGetSuggestionsForShot"]
  /\ UNCHANGED <<projVars, uiVars, dbVars, loaded, envVars>>

\* getScriptSuggestions resolved; the handler returns the suggestions
SuggestionsSucceed(op) ==
  /\ op \in aiOps /\ op.kind = "suggestions"
  /\ UNCHANGED <<apiKeyStatus, rateLimitCooldown, globalError>>
  /\ Finally(op)
  /\ lastOp' = [name |-> "SuggestionsSucceed", op |-> op]
  /\ UNCHANGED <<projVars, uiVars, dbVars, loaded, envVars>>

\* ------------------------------------------------------------------------
\* Rate/Throttle timers
\* ------------------------------------------------------------------------
\* the cooldown effect's setTimeout(() => setRateLimitCooldown(prev => prev - 1), 1000)
CooldownTick ==
  /\ rateLimitCooldown > 0
  /\ rateLimitCooldown' = rateLimitCooldown - 1
  /\ UNCHANGED lastOp
  /\ UNCHANGED <<projVars, uiVars, isApiBusy, apiThrottle,
                 apiKeyStatus, globalError, aiOps, dbVars, loaded, envVars>>

\* the throttle effect's setTimeout(() => setApiThrottle(prev => prev - 1), 1000)
ThrottleTick ==
  /\ apiThrottle > 0
  /\ apiThrottle' = apiThrottle - 1
  /\ UNCHANGED lastOp
  /\ UNCHANGED <<projVars, uiVars, isApiBusy, rateLimitCooldown,
                 apiKeyStatus, globalError, aiOps, dbVars, loaded, envVars>>

\* ------------------------------------------------------------------------
\* Import
\* ------------------------------------------------------------------------
\* JSON.parse(content) succeeds
Parses(file) == Has(file, "json")

\* a validation that asks for the shots only
RejectedUnlessShots(file) == ~Parses(file) \/ ~Has(file.json, "shots")

\* !parsedProject.id || !parsedProject.shots
Rejected(file) == ~Parses(file) \/ ~Truthy(file.json, "id") \/ ~Has(file.json, "shots")

\* an import that keeps the id written in the file
ImportedKeepingId(parsedProject, compressed, firstId, t) ==
  Put(Put(parsedProject, "shots", MigrateImportedShots(parsedProject.shots, compressed, firstId, t)),
      "title", Get(parsedProject, "title") \o " (Imported)")

\* the project handleImportJson inserts
ImportedProject(parsedProject, compressed, firstId, t) ==
  LET migrated == MigrateImportedShots(parsedProject.shots, compressed, firstId, t)
      newId == Uuid(firstId + MigrationIds(parsedProject.shots, Len(parsedProject.shots)))
  IN Put(Put(Put(parsedProject, "shots", migrated), "id", newId),
         "title", Get(parsedProject, "title") \o " (Imported)")

handleImportJson(file, compressed) ==
  /\ UserEvent /\ currentView = DASHBOARD
  /\ IF Rejected(file)
     THEN /\ globalError' = "import failed"
          /\ UNCHANGED <<projVars, envVars>>
     ELSE /\ now < MaxNow /\ Len(projects) < MaxProjects
          /\ nextId + MigrationIds(file.json.shots, Len(file.json.shots)) <= MaxIds
          /\ SetProjects(<<ImportedProject(file.json, compressed, nextId, now)>> \o projects)
          /\ globalError' = Undefined
          /\ nextId' = nextId + MigrationIds(file.json.shots, Len(file.json.shots)) + 1
          /\ now' = IF MigrationIds(file.json.shots, Len(file.json.shots)) > 0
                    THEN now + 1 ELSE now
  /\ lastOp' = [name |-> "handleImportJson", rejected |-> Rejected(file), file |-> file,
                compressed |-> compressed, firstId |-> nextId, t |-> now]
  /\ UNCHANGED <<uiVars, isApiBusy, apiThrottle, rateLimitCooldown, apiKeyStatus, aiOps,
                 dbVars, loaded>>

\* ------------------------------------------------------------------------
\* Persistence Gateway (services/db): operations settle one by one
\* ------------------------------------------------------------------------
\* the records after an upsert of `project`: one record per id
Upsert(records, project) == {r \in records : r.id # project.id} \cup {project}

\* db.saveProject(p) resolved
DbSaveSucceeds(o) ==
  /\ o \in dbOps /\ o.op = "save"
  /\ stored' = Upsert(stored, o.project)
  /\ dbOps' = dbOps \ {o}
  /\ UNCHANGED <<projVars, uiVars, apiVars, aiOps, prevProjectsRef, saveErrors, localData,
                 loaded, envVars, lastOp>>

\* db.saveProject(p) rejected: .catch(e => console.error(...))
DbSaveFails(o) ==
  /\ o \in dbOps /\ o.op = "save"
  /\ dbOps' = dbOps \ {o}
  /\ saveErrors' = saveErrors \cup {o.project}
  /\ UNCHANGED <<projVars, uiVars, apiVars, aiOps, prevProjectsRef, stored, localData, loaded,
                 envVars, lastOp>>

\* db.deleteProject(id) resolved
DbDeleteSettles(o) ==
  /\ o \in dbOps /\ o.op = "delete"
  /\ stored' = {r \in stored : r.id # o.id}
  /\ dbOps' = dbOps \ {o}
  /\ UNCHANGED <<projVars, uiVars, apiVars, aiOps, prevProjectsRef, saveErrors, localData,
                 loaded, envVars, lastOp>>

\* ------------------------------------------------------------------------
\* Change-Tracking Auto-Saver
\* ------------------------------------------------------------------------
\* changedProjects of the timer callback, over the snapshot and the captured projects
RECURSIVE ChangedFrom(_, _, _)
ChangedFrom(prevProjects, captured, i) ==
  IF i > Len(captured) THEN <<>>
  ELSE LET project == captured[i]
           old == Find(prevProjects, project.id)
       IN (IF FindIndex(prevProjects, project.id) = 0 \/ old.updatedAt # project.updatedAt
           THEN <<project>> ELSE <<>>)
          \o ChangedFrom(prevProjects, captured, i + 1)

\* a callback that saves every project, and one that saves nothing without a
\* snapshot
ChangedProjectsAll(snapshot, captured) == captured
ChangedProjectsNoneAtFirst(snapshot, captured) ==
  IF ~snapshot.held THEN <<>> ELSE ChangedFrom(snapshot.value, captured, 1)

ChangedProjects(snapshot, captured) ==
  IF ~snapshot.held THEN captured ELSE ChangedFrom(snapshot.value, captured, 1)

\* a snapshot that leaves out the projects handed to the Gateway
SnapshotOfClean(captured) ==
  [held |-> TRUE,
   value |-> Filter(captured, LAMBDA p :
               \A i \in 1..Len(ChangedProjects(prevProjectsRef, captured)) :
                 ChangedProjects(prevProjectsRef, captured)[i] # p)]

\* prevProjectsRef.current = projects
NextSnapshot(captured) == [held |-> TRUE, value |-> captured]

\* the debounce delay elapses by one tick
DebounceTick ==
  /\ \E t \in saveTimers : t.remaining > 0
  /\ saveTimers' = {[t EXCEPT !.remaining = IF @ > 0 THEN @ - 1 ELSE 0] : t \in saveTimers}
  /\ quiet' = IF quiet < DebounceTicks THEN quiet + 1 ELSE quiet
  /\ UNCHANGED lastOp
  /\ UNCHANGED <<projects, everShots, uiVars, apiVars, aiOps, dbVars, loaded, envVars>>

\* a loop that stops after its first call
SaveCallsFirst(changedProjects) ==
  {[op |-> "save", project |-> changedProjects[i]] : i \in 1..Len(changedProjects) \cap {1}}

\* changedProjects.forEach(p => { db.saveProject(p).catch(...) })
SaveCalls(changedProjects) ==
  {[op |-> "save", project |-> changedProjects[i]] : i \in 1..Len(changedProjects)}

\* the callback of setTimeout(..., 1000) runs
AutoSave(timer) ==
  /\ timer \in saveTimers /\ timer.remaining = 0
  /\ Cardinality(dbOps \cup SaveCalls(ChangedProjects(prevProjectsRef, timer.projects)))
       <= MaxInFlight
  /\ dbOps' = dbOps \cup SaveCalls(ChangedProjects(prevProjectsRef, timer.projects))
  /\ prevProjectsRef' = NextSnapshot(timer.projects)
  /\ saveTimers' = saveTimers \ {timer}
  /\ lastOp' = [name |-> "AutoSave", prev |-> prevProjectsRef, quiet |-> quiet,
                calls |-> ChangedProjects(prevProjectsRef, timer.projects)]
  /\ UNCHANGED <<projects, quiet, everShots, uiVars, apiVars, aiOps, stored, saveErrors,
                 localData, loaded, envVars>>

\* ------------------------------------------------------------------------
\* Inputs of the events
\* ------------------------------------------------------------------------
\* variation ids handleSelectVariation is called with: the shot's own, and one
\* that no shot holds
UnknownVariationId == "a-unknown"
VariationIdsOf(shotId) ==
  IF ~HasCurrentProject THEN {}
  ELSE UNION {Ids(currentProject.shots[i].imageVariations)
              : i \in {j \in 1..Len(currentProject.shots) : currentProject.shots[j].id = shotId}}

\* what generateScriptBreakdown resolves with
Breakdown2 ==
  <<[shotNumber |-> 1, description |-> "b1", visualPrompt |-> "w1"],
    [shotNumber |-> 2, description |-> "b2", visualPrompt |-> "w2"]>>
BreakdownSkipping ==
  <<[shotNumber |-> 1, description |-> "b1", visualPrompt |-> "w1"],
    [shotNumber |-> 3, description |-> "b3", visualPrompt |-> "w3"]>>
BreakdownResults == {Breakdown2, BreakdownSkipping}

\* files handed to the import input
FileBackup == [json |-> StoredProject]
FileSkipping ==
  [json |-> [StoredProject EXCEPT !.id = "x2",
               !.shots = <<StoredShot1, [StoredShot2 EXCEPT !.shotNumber = 3]>>,
               !.trashedShots = <<>>]]
FileNoShots == [json |-> [id |-> "x3", title |-> "film"]]
FileNoId == [json |-> [title |-> "film", shots |-> <<>>]]
FileGarbage == [text |-> "not json"]
ImportFiles == {FileBackup, FileSkipping, FileNoShots, FileNoId, FileGarbage}

\* shots as earlier versions of the application wrote them
LegacyShotFull ==
  [id |-> "l1", shotNumber |-> 1, description |-> "d1", visualPrompt |-> "v1",
   imageUrl |-> PngA, imageOriginalUrl |-> PngB, imagePreviewUrl |-> Jpeg,
   imagePreviewFileSize |-> 8, imageOriginalFileSize |-> 12,
   isGeneratingImage |-> FALSE, isUpdatingPrompt |-> FALSE]
LegacyShotUrl ==
  [id |-> "l2", shotNumber |-> 1, description |-> "d2", visualPrompt |-> "v2",
   imageUrl |-> PngA, imageVariations |-> <<>>,
   isGeneratingImage |-> FALSE, isUpdatingPrompt |-> FALSE,
   settings |-> Delete(DefaultSettings, "shotType")]
LegacyShotPlain ==
  [id |-> "l3", shotNumber |-> 1, description |-> "d3", visualPrompt |-> "v3",
   isGeneratingImage |-> FALSE, isUpdatingPrompt |-> FALSE, settings |-> DefaultSettings]
LegacyShotKept ==
  [id |-> "l4", shotNumber |-> 1, description |-> "d4", visualPrompt |-> "v4",
   imageVariations |-> <<[id |-> "a4", originalUrl |-> PngA, previewUrl |-> Jpeg,
                          originalFileSize |-> 12, previewFileSize |-> 8, createdAt |-> 0]>>,
   selectedVariationId |-> "a4", imageUrl |-> PngB, imageOriginalFileSize |-> 12,
   isGeneratingImage |-> FALSE, isUpdatingPrompt |-> FALSE, settings |-> DefaultSettings]

LegacyProject(shots) ==
  [id |-> "g1", title |-> "old", idea |-> "old", shots |-> shots,
   trashedShots |-> <<[LegacyShotFull EXCEPT !.id = "l9"]>>, createdAt |-> 0, updatedAt |-> 0]

LegacyProjects ==
  {LegacyProject(<<shot>>) : shot \in {LegacyShotFull, LegacyShotUrl, LegacyShotPlain,
                                        LegacyShotKept, StoredShot1}}
    \cup {LegacyProject(<<LegacyShotFull, LegacyShotUrl>>)}

\* what localStorage may hold under 'cinevision_projects' when the page opens
LegacyStores ==
  {NoLocalData, [text |-> "not json"], [json |-> <<[id |-> "g2", title |-> "old"]>>]}
    \cup {[json |-> <<p>>] : p \in LegacyProjects}

\* backups written by earlier versions of the application
LegacyFiles == {[json |-> p] : p \in LegacyProjects}

\* a breakdown of one shot
Breakdown1 == <<[shotNumber |-> 1, description |-> "b1", visualPrompt |-> "w1"]>>

\* error.message of a rejected collaborator call
ErrorMessages == {RateLimitMessage, AuthMessage, OtherMessage}

\* the outcomes of the two generation attempts
GenerationResults == {<<PngA, PngB>>, <<PngA, <<>>>>, <<<<>>, PngB>>, <<<<>>, <<>>>>}

\* ------------------------------------------------------------------------
\* Specification
\* ------------------------------------------------------------------------
\* shots in the trash of the project on screen (the rows of the shot trash modal)
TrashedShotIds == IF HasCurrentProject THEN Ids(TrashedShots(currentProject)) ELSE {}

\* shots of the project on screen (the rendered ShotItems)
ActiveShotIds == IF HasCurrentProject THEN Ids(currentProject.shots) ELSE {}

Navigation ==
  \/ \E id \in Ids(projects) : SelectProject(id)
  \/ BackToDashboard

ShotEvent ==
  \/ \E sid \in ActiveShotIds \cup TrashedShotIds : handleAddShotAfter(sid)
  \/ \E sid \in ActiveShotIds : handleInitiateDeleteShot(sid)
  \/ \E sid \in TrashedShotIds : handleRestoreShot(sid)
  \/ \E sid \in TrashedShotIds : handlePermanentlyDeleteShot(sid)
  \/ handleCancelDeleteShot
  \/ handleConfirmDeleteShot
  \/ handleEmptyTrash

ShotEditEvent ==
  \/ \E sid \in ActiveShotIds :
        \E vid \in VariationIdsOf(sid) \cup {UnknownVariationId} :
          handleSelectVariation(sid, vid)
  \/ \E sid \in ActiveShotIds : handleUpdateVisualPrompt(sid, "edited")
  \/ \E sid \in ActiveShotIds : handleUpdateShotSettings(sid, [shotType |-> "Close-up"])

DialogEvent ==
  \/ ConfirmDialogConfirm
  \/ ConfirmDialogCancel

ProjectEvent ==
  \/ \E id \in Ids(projects) : handleDeleteProject(id)
  \/ \E id \in Ids(projects) : handleRestoreProject(id)
  \/ \E id \in Ids(projects) : handlePermanentlyDeleteProject(id)
  \/ handleEmptyProjectTrash
  \/ handleSaveProjectInfo("retitled", "film")

AiStart ==
  \/ TypeIdea("film")
  \/ handleCreateProject
  \/ \E sid \in ActiveShotIds : handleGenerateImage(sid, Undefined, <<>>)
  \/ \E sid \in ActiveShotIds : handleEditShotImage(sid, "brighter")
  \/ \E sid \in ActiveShotIds : handleUpdateShotDescription(sid, "d9")
  \/ handleGetSuggestionsForShot("film", "d1")

AiSuccess ==
  \/ \E op \in aiOps : \E shotsData \in BreakdownResults : CreateProjectSucceeds(op, shotsData)
  \/ \E op \in aiOps : EditSucceeds(op, PngB, TRUE)
  \/ \E op \in aiOps : DescriptionSucceeds(op, "w9")
  \/ \E op \in aiOps : SuggestionsSucceed(op)

\* the AI operations, their collaborator calls failing for a reason the
\* application does not classify
AiEvent ==
  \/ AiStart
  \/ AiSuccess
  \/ \E op \in aiOps : \E results \in GenerationResults :
        GenerateSettles(op, results, <<TRUE, FALSE>>, OtherMessage)
  \/ \E op \in aiOps : AiCallFails(op, OtherMessage)
  \/ ThrottleTick

\* the AI operations, their collaborator calls failing with every signal
GateEvent ==
  \/ AiStart
  \/ AiSuccess
  \/ \E op \in aiOps : \E results \in GenerationResults :
        \E reason \in {RateLimitMessage, OtherMessage} :
          GenerateSettles(op, results, <<TRUE, FALSE>>, reason)
  \/ \E op \in aiOps : \E message \in ErrorMessages : AiCallFails(op, message)
  \/ ThrottleTick

SaverEvent ==
  \/ DebounceTick
  \/ \E timer \in saveTimers : AutoSave(timer)
  \/ \E o \in dbOps : DbSaveSucceeds(o)
  \/ \E o \in dbOps : DbSaveFails(o)
  \/ \E o \in dbOps : DbDeleteSettles(o)

\* the whole application
Next ==
  \/ initializeData
  \/ Navigation
  \/ ShotEvent
  \/ ShotEditEvent
  \/ DialogEvent
  \/ ProjectEvent
  \/ \E file \in ImportFiles : handleImportJson(file, TRUE)
  \/ GateEvent
  \/ CooldownTick
  \/ DismissBanner
  \/ SaverEvent

Spec == Init /\ [][Next]_vars

\* the shot list and trash bin of a project under the user's shot events
NextShots ==
  \/ initializeData
  \/ Navigation
  \/ ShotEvent
  \/ DialogEvent
  \/ handleImportJson(FileSkipping, TRUE)

SpecShots == Init /\ [][NextShots]_vars

\* the AI operations on the shots of a project, with the edits a user can make
\* while one is in flight
NextAi ==
  \/ initializeData
  \/ \E id \in Ids(projects) : SelectProject(id)
  \/ ShotEditEvent
  \/ AiEvent

SpecAi == Init /\ [][NextAi]_vars

\* the admission of the AI operations and the key status under every failure
\* signal
NextGate ==
  \/ initializeData
  \/ \E id \in Ids(projects) : SelectProject(id)
  \/ GateEvent

SpecGate == Init /\ [][NextGate]_vars

\* the auto-saver under events that change the project collection
NextSaver ==
  \/ initializeData
  \/ \E id \in Ids(projects) : handleDeleteProject(id)
  \/ \E id \in Ids(projects) : handleRestoreProject(id)
  \/ \E id \in Ids(projects) : handlePermanentlyDeleteProject(id)
  \/ DialogEvent
  \/ handleImportJson(FileBackup, TRUE)
  \/ SaverEvent

SpecSaver == Init /\ [][NextSaver]_vars

\* the project collection under the dashboard's project events
NextProjects ==
  \/ initializeData
  \/ Navigation
  \/ ProjectEvent
  \/ DialogEvent
  \/ handleImportJson(FileBackup, TRUE)
  \/ \E o \in dbOps : DbDeleteSettles(o)

SpecProjects == Init /\ [][NextProjects]_vars

\* the application opened over what earlier versions left in localStorage
InitLegacy == Constructed /\ localData \in LegacyStores

\* first-run migration, imports and creations
NextImport ==
  \/ initializeData
  \/ \E file \in ImportFiles \cup LegacyFiles, compressed \in BOOLEAN :
        handleImportJson(file, compressed)
  \/ TypeIdea("film")
  \/ handleCreateProject
  \/ \E op \in aiOps : CreateProjectSucceeds(op, Breakdown1)
  \/ BackToDashboard

SpecImport == InitLegacy /\ [][NextImport]_vars

\* encoded payloads of every length up to MaxLen, with and without padding
Payloads == UNION {[1..n -> {"A", "="}] : n \in 1..MaxLen}

\* a backup whose one shot has `payload` as its imageUrl and no stored size
SizeFile(payload) ==
  [json |-> LegacyProject(<<[LegacyShotUrl EXCEPT !.imageUrl = payload]>>)]

\* the sizes computed when backups with payloads of every length are imported
NextSize ==
  \/ initializeData
  \/ \E payload \in Payloads, compressed \in BOOLEAN :
        handleImportJson(SizeFile(payload), compressed)

SpecSize == Init /\ [][NextSize]_vars

\* the auto-saver while a description update is in flight
NextPersist ==
  \/ initializeData
  \/ \E id \in Ids(projects) : SelectProject(id)
  \/ \E sid \in ActiveShotIds : handleUpdateShotDescription(sid, "d9")
  \/ \E op \in aiOps : DescriptionSucceeds(op, "w9")
  \/ \E op \in aiOps : AiCallFails(op, OtherMessage)
  \/ ThrottleTick
  \/ DebounceTick
  \/ \E timer \in saveTimers : AutoSave(timer)
  \/ \E o \in dbOps : DbSaveSucceeds(o)

SpecPersist == Init /\ [][NextPersist]_vars

\* AI operations in flight while the user trashes, restores, adds and edits
\* shots and moves between two projects
NextRace ==
  \/ initializeData
  \/ Navigation
  \/ handleImportJson(FileBackup, TRUE)
  \/ \E sid \in ActiveShotIds : handleGenerateImage(sid, Undefined, <<>>)
  \/ \E op \in aiOps : \E results \in {<<PngB, <<>>>>, <<<<>>, <<>>>>} :
        GenerateSettles(op, results, <<TRUE, FALSE>>, OtherMessage)
  \/ \E sid \in ActiveShotIds : handleUpdateShotDescription(sid, "d9")
  \/ \E op \in aiOps : DescriptionSucceeds(op, "w9")
  \/ \E sid \in ActiveShotIds : handleAddShotAfter(sid)
  \/ \E sid \in ActiveShotIds : handleInitiateDeleteShot(sid)
  \/ handleConfirmDeleteShot
  \/ \E sid \in TrashedShotIds : handleRestoreShot(sid)
  \/ \E sid \in ActiveShotIds : handleUpdateVisualPrompt(sid, "edited")
  \/ \E sid \in ActiveShotIds : handleUpdateShotSettings(sid, [shotType |-> "Close-up"])

SpecRace == Init /\ [][NextRace]_vars

\* every shot-level and project-info operation, with two projects in memory
NextFrame ==
  \/ initializeData
  \/ Navigation
  \/ handleImportJson(FileBackup, TRUE)
  \/ \E sid \in ActiveShotIds : handleAddShotAfter(sid)
  \/ \E sid \in ActiveShotIds : handleInitiateDeleteShot(sid)
  \/ handleConfirmDeleteShot
  \/ \E sid \in TrashedShotIds : handleRestoreShot(sid)
  \/ \E sid \in TrashedShotIds : handlePermanentlyDeleteShot(sid)
  \/ handleEmptyTrash
  \/ ConfirmDialogConfirm
  \/ \E sid \in ActiveShotIds : \E vid \in VariationIdsOf(sid) : handleSelectVariation(sid, vid)
  \/ \E sid \in ActiveShotIds : handleUpdateVisualPrompt(sid, "edited")
  \/ \E sid \in ActiveShotIds : handleUpdateShotSettings(sid, [shotType |-> "Close-up"])
  \/ handleSaveProjectInfo("retitled", "film")
  \/ \E sid \in ActiveShotIds : handleGenerateImage(sid, Undefined, <<>>)
  \/ \E op \in aiOps : GenerateSettles(op, <<PngB, <<>>>>, <<TRUE, FALSE>>, OtherMessage)
  \/ \E sid \in ActiveShotIds : handleEditShotImage(sid, "brighter")
  \/ \E op \in aiOps : EditSucceeds(op, PngB, TRUE)
  \/ \E sid \in ActiveShotIds : handleUpdateShotDescription(sid, "d9")
  \/ \E op \in aiOps : DescriptionSucceeds(op, "w9")

SpecFrame == Init /\ [][NextFrame]_vars


\* the two counters under rate-limit signals, the timers and the buttons that
\* write them
NextTimers ==
  \/ initializeData
  \/ \E id \in Ids(projects) : SelectProject(id)
  \/ BackToDashboard
  \/ DismissBanner
  \/ handleGetSuggestionsForShot("film", "d1")
  \/ \E op \in aiOps : SuggestionsSucceed(op)
  \/ \E op \in aiOps : \E message \in {RateLimitMessage, OtherMessage} : AiCallFails(op, message)
  \/ ThrottleTick
  \/ CooldownTick

SpecTimers == Init /\ [][NextTimers]_vars

\* a pending collaborator call settles, with either outcome
CallSettles ==
  \E op \in aiOps :
    \/ SuggestionsSucceed(op)
    \/ \E message \in {RateLimitMessage, OtherMessage} : AiCallFails(op, message)

\* the timers of the two effects fire and every collaborator call settles
SpecLive ==
  /\ SpecTimers
  /\ WF_vars(ThrottleTick)
  /\ WF_vars(CooldownTick)
  /\ WF_vars(CallSettles)

\* ------------------------------------------------------------------------
\* Properties
\* ------------------------------------------------------------------------
\* every shot of the list carries its position, counted from one
Numbered(shots) == \A i \in 1..Len(shots) : shots[i].shotNumber = i

\* C1: after handleAddShotAfter, handleConfirmDeleteShot or handleRestoreShot on
\* a project, every shot of the project's active list has shotNumber equal to
\* its index + 1
C1_Renumbered ==
  lastOp.name \in {"handleAddShotAfter", "handleConfirmDeleteShot", "handleRestoreShot"}
    => \A i \in 1..Len(projects) :
         projects[i].id = lastOp.pid => Numbered(projects[i].shots)

\* a shot trashed from position 2 is restored into a list that has a shot
\* numbered 2 again, and the list is renumbered 1, 2, 3
C1_Witness ==
  /\ lastOp.name = "handleRestoreShot" /\ lastOp.sid = "s3"
  /\ \E i \in 1..Len(projects) :
       /\ projects[i].id = lastOp.pid
       /\ Ids(projects[i].shots) = {"s1", "s2", "s3"}
       /\ Numbered(projects[i].shots)

\* C2: in every reachable state, every shot of every project's active list,
\* a project just created from a breakdown or just imported included, has
\* shotNumber equal to its position + 1
C2_Contiguous == \A i \in 1..Len(projects) : Numbered(projects[i].shots)

\* the shot is in the active list, or in the trash, of the project
InShots(ps, pid, sid) == \E i \in 1..Len(ps) : ps[i].id = pid /\ sid \in Ids(ps[i].shots)
InTrash(ps, pid, sid) ==
  \E i \in 1..Len(ps) : ps[i].id = pid /\ sid \in Ids(TrashedShots(ps[i]))

\* C3, as stated: every shot id a project ever held is in exactly one of the
\* project's shots and trashedShots, never both and never neither
C3_ExactlyOne ==
  \A pr \in everShots : InShots(projects, pr[1], pr[2]) # InTrash(projects, pr[1], pr[2])

\* C3, amended: no step puts a shot id in both lists of its project, and a
\* shot id is in neither list only once the confirmed permanently-delete-shot
\* or empty-shot-trash has removed it from trashedShots
C3_OneListUntilDeleted ==
  [][\A pr \in everShots' :
       /\ ~(InShots(projects', pr[1], pr[2]) /\ InTrash(projects', pr[1], pr[2]))
       /\ (~InShots(projects', pr[1], pr[2]) /\ ~InTrash(projects', pr[1], pr[2])) =>
            \/ /\ pr \in everShots
               /\ ~InShots(projects, pr[1], pr[2]) /\ ~InTrash(projects, pr[1], pr[2])
            \/ /\ InTrash(projects, pr[1], pr[2])
               /\ confirmDialog' = NoDialog
               /\ \/ confirmDialog = [kind |-> "deleteShot", pid |-> pr[1], sid |-> pr[2]]
                  \/ confirmDialog = [kind |-> "emptyTrash", pid |-> pr[1]]]_vars

\* the trash was emptied: a shot the project held is in neither list, and the
\* project still has active shots
C3_Witness ==
  /\ lastOp.name = "ConfirmDialogConfirm" /\ lastOp.dialog.kind = "emptyTrash"
  /\ \E pr \in everShots :
       ~InShots(projects, pr[1], pr[2]) /\ ~InTrash(projects, pr[1], pr[2])
  /\ \E pr \in everShots : InShots(projects, pr[1], pr[2])

\* C4: in every reachable state the selectedVariationId of every shot is
\* absent or the id of a member of the shot's imageVariations, whatever
\* variationId handleSelectVariation was called with
C4_SelectedIsMember ==
  \A i \in 1..Len(projects) : \A j \in 1..Len(projects[i].shots) :
    Truthy(projects[i].shots[j], "selectedVariationId")
      => projects[i].shots[j].selectedVariationId
           \in Ids(projects[i].shots[j].imageVariations)

\* C5: every step that changes a field of a project changes the project's
\* updatedAt in the same step
C5_ChangeBumpsUpdatedAt ==
  [][\A i \in 1..Len(projects) : \A j \in 1..Len(projects') :
       (projects[i].id = projects'[j].id /\ projects[i] # projects'[j])
         => projects[i].updatedAt # projects'[j].updatedAt]_vars

\* the step is a run of the auto-save timer callback
AutoSaveStep == lastOp'.name = "AutoSave" /\ lastOp.name # "AutoSave"

\* the Gateway calls issued by the step
Issued == dbOps' \ dbOps

\* the project's id is absent from the snapshot, or its updatedAt differs from
\* the entry of the same id
Dirty(S, p) == \A k \in 1..Len(S) : S[k].id = p.id => S[k].updatedAt # p.updatedAt

DirtyProjects(S, ps) == {ps[i] : i \in {k \in 1..Len(ps) : Dirty(S, ps[k])}}

\* C6: when the timer fires with a prior snapshot S, db.saveProject is called
\* once for each current project whose id is absent from S or whose updatedAt
\* differs from S's entry, and for no other
C6_UpsertsExactlyDirty ==
  [][(AutoSaveStep /\ prevProjectsRef.held) =>
       /\ \A o \in Issued : o.op = "save"
       /\ {o.project : o \in Issued} = DirtyProjects(prevProjectsRef.value, projects)
       /\ Len(lastOp'.calls) = Cardinality(DirtyProjects(prevProjectsRef.value, projects))
       /\ \A k \in 1..Len(lastOp'.calls) :
            lastOp'.calls[k] \in DirtyProjects(prevProjectsRef.value, projects)]_vars

\* a cycle over two projects that differ from the snapshot only in p1's
\* updatedAt issued one upsert, for p1
C6_Witness ==
  /\ lastOp.name = "AutoSave" /\ lastOp.prev.held
  /\ Len(projects) = 2 /\ Len(lastOp.prev.value) = 2
  /\ \E i, j \in 1..2 :
       /\ projects[i].id = "p1" /\ lastOp.prev.value[i].id = "p1"
       /\ projects[i].updatedAt # lastOp.prev.value[i].updatedAt
       /\ j # i /\ projects[j] = lastOp.prev.value[j]
       /\ lastOp.calls = <<projects[i]>>

\* C7: when the timer fires and no snapshot is held, db.saveProject is called
\* once for every project in memory: N projects, N calls
C7_FirstCycleUpsertsAll ==
  [][(AutoSaveStep /\ ~prevProjectsRef.held) =>
       /\ lastOp'.calls = projects
       /\ Issued = {[op |-> "save", project |-> projects[i]] : i \in 1..Len(projects)}
       /\ Cardinality(Issued) = Len(projects)]_vars

\* the first cycle ran over two projects and called db.saveProject twice
C7_Witness ==
  /\ lastOp.name = "AutoSave" /\ ~lastOp.prev.held
  /\ Len(projects) = 2 /\ Len(lastOp.calls) = 2

\* C8, as stated: every change of the project sequence, one that empties it
\* included, leaves one timer pending, armed for the new sequence with the
\* full delay
C8_EveryChangeArms ==
  [][projects' # projects =>
       saveTimers' = {[projects |-> projects', remaining |-> DebounceTicks]}]_vars

\* C8, amended: a change to a non-empty sequence cancels the pending timer and
\* arms one with the full delay; a change that empties the sequence cancels the
\* pending timer and arms none; at most one timer is pending; and the callback
\* runs only when the sequence it captured has stood unchanged for the delay
C8_DebounceUnlessEmpty ==
  [][/\ Cardinality(saveTimers') <= 1
     /\ projects' # projects =>
          saveTimers' = IF Len(projects') = 0 THEN {}
                        ELSE {[projects |-> projects', remaining |-> DebounceTicks]}
     /\ AutoSaveStep =>
          /\ quiet >= DebounceTicks
          /\ saveTimers \ saveTimers' = {[projects |-> projects, remaining |-> 0]}]_vars

\* the only project was removed before any cycle ran: the timer its trashing
\* had armed is cancelled and none is pending
C8_Witness ==
  /\ lastOp.name = "ConfirmDialogConfirm" /\ lastOp.dialog.kind = "deleteProject"
  /\ Len(projects) = 0 /\ saveTimers = {} /\ quiet = 0
  /\ ~prevProjectsRef.held /\ stored # {}

\* C9: after every cycle the snapshot is the full current sequence, whatever
\* was issued or settled; and a project whose upsert was rejected is not
\* handed to db.saveProject again while its updatedAt is the same
C9_SnapshotIsCurrentNoRetry ==
  [][AutoSaveStep =>
       /\ prevProjectsRef' = [held |-> TRUE, value |-> projects']
       /\ \A o \in Issued : \A e \in saveErrors :
            ~(o.op = "save" /\ o.project.id = e.id
              /\ o.project.updatedAt = e.updatedAt)]_vars

\* the upsert of a project was rejected in an earlier cycle; a later cycle
\* upserted the other project and left the first, unchanged in memory and in the
\* snapshot, alone
C9_Witness ==
  /\ lastOp.name = "AutoSave" /\ lastOp.prev.held /\ Len(lastOp.calls) = 1
  /\ prevProjectsRef = [held |-> TRUE, value |-> projects]
  /\ \E e \in saveErrors :
       /\ lastOp.calls[1].id # e.id
       /\ \E i \in 1..Len(projects) : projects[i] = e
       /\ \E k \in 1..Len(lastOp.prev.value) : lastOp.prev.value[k] = e
       /\ \A o \in dbOps : o.op = "save" => o.project.id # e.id

\* C10: a cycle issues the upsert of every dirty project before any of them
\* can be rejected, and the rejection of one upsert leaves the others in flight
\* and changes nothing in memory
C10_FailureIsIsolated ==
  [][/\ AutoSaveStep =>
          \A k \in 1..Len(lastOp'.calls) :
            [op |-> "save", project |-> lastOp'.calls[k]] \in dbOps'
     /\ saveErrors' # saveErrors =>
          /\ \A o \in dbOps : o \in dbOps' \/ (o.op = "save" /\ o.project \in saveErrors')
          /\ Cardinality(dbOps \ dbOps') = 1
          /\ UNCHANGED <<projects, saveTimers, prevProjectsRef, uiVars, apiVars, stored>>]_vars

\* of the two upserts of one cycle the first was rejected and the second is
\* stored
C10_Witness ==
  /\ lastOp.name = "AutoSave" /\ Len(lastOp.calls) = 2 /\ dbOps = {}
  /\ lastOp.calls[1] \in saveErrors /\ lastOp.calls[1] \notin stored
  /\ lastOp.calls[2] \in stored
  /\ projects = lastOp.calls

\* the step admits an AI operation: its collaborator call is issued
AdmitStep == aiOps' \ aiOps # {}

\* C11: an AI-triggering operation invoked while the busy flag is set, or while
\* the throttle counter or the rate-limit cooldown counter is above zero, issues
\* no collaborator call
C11_GatedByFlagAndCounters ==
  [][AdmitStep => (~isApiBusy /\ apiThrottle = 0 /\ rateLimitCooldown = 0)]_vars

\* the step completes an AI operation: its collaborator call has settled
CompleteStep == aiOps \ aiOps' # {}

\* C12: when an admitted AI operation completes, with success or failure, the
\* busy flag is cleared and the throttle counter set to 3; the counter then only
\* goes down by one per tick, and no AI operation is admitted before it is zero
C12_ThrottleAfterCompletion ==
  [][/\ CompleteStep => (isApiBusy' = FALSE /\ apiThrottle' = 3)
     /\ apiThrottle' # apiThrottle => (CompleteStep \/ apiThrottle' = apiThrottle - 1)
     /\ AdmitStep => apiThrottle = 0]_vars

\* an operation has just failed: the flag is clear and the window is at 3
C12_Witness ==
  /\ lastOp.name = "AiCallFails" /\ aiOps = {}
  /\ ~isApiBusy /\ apiThrottle = 3

\* C13: at most one AI operation is in flight, and the busy flag is set
\* exactly while one is; so no operation is admitted while another runs and no
\* two shots generate at once
C13_OneInFlight ==
  /\ Cardinality(aiOps) <= 1
  /\ isApiBusy <=> aiOps # {}

\* an image generation is in flight for one shot of a project with two, the
\* flag is set, and the throttle is zero
C13_Witness ==
  /\ isApiBusy /\ apiThrottle = 0
  /\ \E op \in aiOps :
       /\ op.kind = "generate"
       /\ \E i \in 1..Len(projects) :
            projects[i].id = op.pid /\ Len(projects[i].shots) >= 2

\* the step completes an AI operation whose collaborator failed with message: a
\* rejected call, or an image generation none of whose attempts succeeded
FailedWith(message) ==
  /\ CompleteStep
  /\ \/ lastOp'.name = "AiCallFails" /\ lastOp'.message = message
     \/ /\ lastOp'.name = "GenerateSettles" /\ lastOp'.images = 0
        /\ lastOp'.reason = message

\* C14: for every AI operation, image generation included, a failure with a
\* quota/rate-limit signal sets the cooldown to 60 and the key status to
\* 'warning'; one with an auth/permission signal sets the status to 'error' and
\* surfaces the message; any other failure surfaces a message and leaves the
\* status and the cooldown alone
C14_FailureClassified ==
  [][/\ FailedWith(RateLimitMessage) =>
          (rateLimitCooldown' = 60 /\ apiKeyStatus' = "warning")
     /\ FailedWith(AuthMessage) =>
          (apiKeyStatus' = "error" /\ globalError' = AuthMessage)
     /\ FailedWith(OtherMessage) =>
          (globalError' # Undefined /\ UNCHANGED <<apiKeyStatus, rateLimitCooldown>>)]_vars

\* the step completes an AI operation with success
SucceededStep ==
  /\ CompleteStep
  /\ \/ lastOp'.name \in {"CreateProjectSucceeds", "EditSucceeds",
                          "DescriptionSucceeds", "SuggestionsSucceed"}
     \/ lastOp'.name = "GenerateSettles" /\ lastOp'.images > 0

\* C15: a successful completion of any AI operation while the key status is
\* 'warning' sets it to 'active', and one while it is 'error' leaves it 'error'
C15_SuccessResetsWarning ==
  [][SucceededStep =>
       /\ apiKeyStatus = "warning" => apiKeyStatus' = "active"
       /\ apiKeyStatus = "error" => apiKeyStatus' = "error"]_vars

\* the shot sid of project pid in a project list
ShotOf(ps, pid, sid) == Find(Find(ps, pid).shots, sid)

\* the project list holds shot sid in the active list of project pid
HasShot(ps, pid, sid) ==
  /\ pid \in Ids(ps)
  /\ sid \in Ids(Find(ps, pid).shots)

\* the number of fulfilled attempts among the settled results
Fulfilled(results) == Cardinality({i \in 1..Len(results) : results[i] # <<>>})

\* the step settles the image generation of a shot of the active list with n
\* of its attempts fulfilled
GenerateSettled(n) ==
  /\ CompleteStep
  /\ lastOp'.name = "GenerateSettles"
  /\ Fulfilled(lastOp'.results) = n
  /\ HasShot(projects, lastOp'.op.pid, lastOp'.op.sid)

\* C16: when both generation attempts fail, the target shot keeps its
\* imageVariations and its selectedVariationId, its isGeneratingImage is false
\* and a global error is surfaced; when exactly one succeeds, exactly one new
\* variation is put in front of imageVariations and is the selected one
C16_GenerateFailureAndPartial ==
  [][LET before == ShotOf(projects, lastOp'.op.pid, lastOp'.op.sid)
         after == ShotOf(projects', lastOp'.op.pid, lastOp'.op.sid)
     IN /\ GenerateSettled(0) =>
             /\ after.imageVariations = before.imageVariations
             /\ Get(after, "selectedVariationId") = Get(before, "selectedVariationId")
             /\ after.isGeneratingImage = FALSE
             /\ globalError' # Undefined
        /\ GenerateSettled(1) =>
             /\ Len(after.imageVariations) = Len(before.imageVariations) + 1
             /\ Tail(after.imageVariations) = before.imageVariations
             /\ after.imageVariations[1].id \notin Ids(before.imageVariations)
             /\ after.selectedVariationId = after.imageVariations[1].id]_vars

\* a generation with one attempt fulfilled has settled for a shot that had a
\* variation: the shot holds two, the new one selected
C16_Witness ==
  /\ lastOp.name = "GenerateSettles" /\ Fulfilled(lastOp.results) = 1
  /\ apiThrottle = 3
  /\ HasShot(projects, lastOp.op.pid, lastOp.op.sid)
  /\ LET shot == ShotOf(projects, lastOp.op.pid, lastOp.op.sid)
     IN /\ Len(shot.imageVariations) = 2
        /\ shot.selectedVariationId = shot.imageVariations[1].id

\* a generation with no attempt fulfilled has settled for a shot that keeps
\* its variation, and the error is on screen
C16_WitnessFailure ==
  /\ lastOp.name = "GenerateSettles" /\ Fulfilled(lastOp.results) = 0
  /\ apiThrottle = 3 /\ globalError = NoImageMessage
  /\ HasShot(projects, lastOp.op.pid, lastOp.op.sid)
  /\ Len(ShotOf(projects, lastOp.op.pid, lastOp.op.sid).imageVariations) = 1

\* C17: when both generation attempts succeed, the shot's imageVariations is
\* the two new variations followed by the previous ones in their order, the
\* first new one is selected, isGeneratingImage is false and the project's
\* updatedAt is bumped
C17_GenerateBoth ==
  [][GenerateSettled(2) =>
       LET before == ShotOf(projects, lastOp'.op.pid, lastOp'.op.sid)
           after == ShotOf(projects', lastOp'.op.pid, lastOp'.op.sid)
           fresh == SubSeq(after.imageVariations, 1, 2)
       IN /\ Len(after.imageVariations) = Len(before.imageVariations) + 2
          /\ SubSeq(after.imageVariations, 3, Len(after.imageVariations))
               = before.imageVariations
          /\ Ids(fresh) \cap Ids(before.imageVariations) = {}
          /\ fresh[1].id # fresh[2].id
          /\ fresh[1].originalUrl = lastOp'.results[1]
          /\ fresh[2].originalUrl = lastOp'.results[2]
          /\ after.selectedVariationId = fresh[1].id
          /\ after.isGeneratingImage = FALSE
          /\ Find(projects', lastOp'.op.pid).updatedAt = now
          /\ Find(projects', lastOp'.op.pid).updatedAt
               > Find(projects, lastOp'.op.pid).updatedAt]_vars

\* a generation with both attempts fulfilled has settled for a shot that had
\* a variation: the shot holds three, the old one last
C17_Witness ==
  /\ lastOp.name = "GenerateSettles" /\ Fulfilled(lastOp.results) = 2
  /\ apiThrottle = 3
  /\ HasShot(projects, lastOp.op.pid, lastOp.op.sid)
  /\ LET shot == ShotOf(projects, lastOp.op.pid, lastOp.op.sid)
     IN /\ Len(shot.imageVariations) = 3
        /\ shot.selectedVariationId = shot.imageVariations[1].id
        /\ shot.imageVariations[3].id = "a1"

\* shot.selectedVariationId is set and names a member of shot.imageVariations
SelectionResolves(shot) ==
  /\ Truthy(shot, "selectedVariationId")
  /\ shot.selectedVariationId \in Ids(shot.imageVariations)

\* the step settles an edit of a shot of the active list with the named outcome
EditSettled(outcome) ==
  /\ CompleteStep
  /\ lastOp'.name = outcome /\ lastOp'.op.kind = "edit"
  /\ HasShot(projects, lastOp'.op.pid, lastOp'.op.sid)

\* C18: an edit is admitted only for a shot whose selectedVariationId names a
\* member of its imageVariations; its success puts exactly one new variation in
\* front and selects it; its failure clears isGeneratingImage and leaves
\* imageVariations, selectedVariationId and the project's updatedAt as they were
C18_EditImage ==
  [][/\ (AdmitStep /\ lastOp'.name = "handleEditShotImage") =>
          /\ SelectionResolves(ShotOf(projects, lastOp'.pid, lastOp'.sid))
          /\ \E op \in aiOps' :
               op.original = Find(ShotOf(projects, lastOp'.pid, lastOp'.sid).imageVariations,
                                  ShotOf(projects, lastOp'.pid, lastOp'.sid).selectedVariationId
                                 ).originalUrl
     /\ LET before == ShotOf(projects, lastOp'.op.pid, lastOp'.op.sid)
            after == ShotOf(projects', lastOp'.op.pid, lastOp'.op.sid)
        IN /\ EditSettled("EditSucceeds") =>
                /\ Len(after.imageVariations) = Len(before.imageVariations) + 1
                /\ Tail(after.imageVariations) = before.imageVariations
                /\ after.imageVariations[1].id \notin Ids(before.imageVariations)
                /\ after.selectedVariationId = after.imageVariations[1].id
           /\ EditSettled("AiCallFails") =>
                /\ after = Put(before, "isGeneratingImage", FALSE)
                /\ Find(projects', lastOp'.op.pid).updatedAt
                     = Find(projects, lastOp'.op.pid).updatedAt]_vars

\* an edit of a shot that held one variation has succeeded: the shot holds
\* two, the new one selected
C18_Witness ==
  /\ lastOp.name = "EditSucceeds" /\ apiThrottle = 3
  /\ HasShot(projects, lastOp.op.pid, lastOp.op.sid)
  /\ LET shot == ShotOf(projects, lastOp.op.pid, lastOp.op.sid)
     IN /\ Len(shot.imageVariations) = 2
        /\ shot.selectedVariationId = shot.imageVariations[1].id

\* an edit has failed and the shot still holds its one variation, selected
C18_WitnessFailure ==
  /\ lastOp.name = "AiCallFails" /\ lastOp.op.kind = "edit" /\ apiThrottle = 3
  /\ HasShot(projects, lastOp.op.pid, lastOp.op.sid)
  /\ LET shot == ShotOf(projects, lastOp.op.pid, lastOp.op.sid)
     IN Len(shot.imageVariations) = 1 /\ SelectionResolves(shot) /\ ~shot.isGeneratingImage

\* the shot list is on screen, the guard of the AI handlers is open, and the
\* selection of a shot that holds a variation names none of its variations
C18_WitnessDangling ==
  /\ DetailView /\ Admitted /\ loaded
  /\ \E i \in 1..Len(currentProject.shots) :
       /\ currentProject.shots[i].imageVariations # <<>>
       /\ ~SelectionResolves(currentProject.shots[i])

\* the step settles the description update of a shot of the active list with
\* the named outcome
DescriptionSettled(outcome) ==
  /\ CompleteStep
  /\ lastOp'.name = outcome /\ lastOp'.op.kind = "description"
  /\ HasShot(projects, lastOp'.op.pid, lastOp'.op.sid)

\* C19: the admitting step of an update-description applies the new description
\* and sets isUpdatingPrompt while the collaborator call is in flight; the
\* success overwrites visualPrompt and clears the flag; the failure keeps the
\* new description and the previous visualPrompt and clears the flag
C19_UpdateDescription ==
  [][/\ (AdmitStep /\ lastOp'.name = "handleUpdateShotDescription"
          /\ HasShot(projects, lastOp'.pid, lastOp'.sid)) =>
          LET before == ShotOf(projects, lastOp'.pid, lastOp'.sid)
              after == ShotOf(projects', lastOp'.pid, lastOp'.sid)
          IN /\ \E op \in aiOps' : op.kind = "description"
                                     /\ after.description = op.description
             /\ after.isUpdatingPrompt = TRUE
             /\ after.visualPrompt = before.visualPrompt
     /\ LET before == ShotOf(projects, lastOp'.op.pid, lastOp'.op.sid)
            after == ShotOf(projects', lastOp'.op.pid, lastOp'.op.sid)
        IN /\ DescriptionSettled("DescriptionSucceeds") =>
                /\ after.visualPrompt = lastOp'.prompt
                /\ after.isUpdatingPrompt = FALSE
                /\ after.description = lastOp'.op.description
           /\ DescriptionSettled("AiCallFails") =>
                /\ after.description = lastOp'.op.description
                /\ after.description = before.description
                /\ after.visualPrompt = before.visualPrompt
                /\ after.isUpdatingPrompt = FALSE]_vars

\* an update-description has failed: the shot shows the new description over
\* the prompt of the old one, its flag clear
C19_Witness ==
  /\ lastOp.name = "AiCallFails" /\ lastOp.op.kind = "description" /\ apiThrottle = 3
  /\ HasShot(projects, lastOp.op.pid, lastOp.op.sid)
  /\ LET shot == ShotOf(projects, lastOp.op.pid, lastOp.op.sid)
     IN /\ shot.description = lastOp.op.description
        /\ shot.description # "d1" /\ shot.visualPrompt = "v1"
        /\ ~shot.isUpdatingPrompt

\* an update-description is in flight: the shot shows the new description and
\* its flag is set
C19_WitnessInFlight ==
  \E op \in aiOps :
    /\ op.kind = "description" /\ HasShot(projects, op.pid, op.sid)
    /\ ShotOf(projects, op.pid, op.sid).description = op.description
    /\ ShotOf(projects, op.pid, op.sid).isUpdatingPrompt

\* an update-description has succeeded: the shot shows the regenerated prompt
C19_WitnessSuccess ==
  /\ lastOp.name = "DescriptionSucceeds" /\ apiThrottle = 3
  /\ HasShot(projects, lastOp.op.pid, lastOp.op.sid)
  /\ ShotOf(projects, lastOp.op.pid, lastOp.op.sid).visualPrompt = lastOp.prompt
  /\ ShotOf(projects, lastOp.op.pid, lastOp.op.sid).visualPrompt # "v1"

\* the step restores the shot that the last operation moved from the active
\* list of the project on screen to its trash
RestoresJustTrashed ==
  /\ lastOp.name = "handleConfirmDeleteShot"
  /\ lastOp'.name = "handleRestoreShot"
  /\ lastOp'.pid = lastOp.pid /\ lastOp'.sid = lastOp.sid
  /\ lastOp.sid \in {lastOp.before[i].id : i \in 1..Len(lastOp.before)}
  /\ lastOp.sid \in Ids(TrashedShots(Find(projects, lastOp.pid)))

\* C20: restoring a shot right after it was trashed returns the active list
\* to the order of ids and the shot numbers it had before the trash, wherever
\* the shot stood
C20_TrashRestoreRoundTrip ==
  [][RestoresJustTrashed =>
       Placement(Find(projects', lastOp.pid).shots) = lastOp.before]_vars

\* the step is handleAddShotAfter(X) on the project on screen
AddShotStep ==
  /\ lastOp'.name = "handleAddShotAfter"
  /\ lastOp'.pid \in Ids(projects)
  /\ nextId' # nextId \/ lastOp' # lastOp

\* C21: handleAddShotAfter(X) with X in the active list puts a new shot, with
\* no variation, no selection and the five default settings, right after X,
\* keeps the other shots in their order and makes the list one longer; with X
\* not in the active list it leaves the project, updatedAt included, as it was
C21_AddShotAfter ==
  [][AddShotStep =>
       LET project == Find(projects, lastOp'.pid)
           before == project.shots
           after == Find(projects', lastOp'.pid).shots
           k == FindIndex(before, lastOp'.sid)
       IN IF k = 0
          THEN Find(projects', lastOp'.pid) = project
          ELSE /\ Len(after) = Len(before) + 1
               /\ after[k + 1].id \notin Ids(before)
               /\ after[k + 1].imageVariations = <<>>
               /\ ~Truthy(after[k + 1], "selectedVariationId")
               /\ after[k + 1].settings =
                    [cameraMovement |-> "Static", shotType |-> "Medium Shot",
                     aspectRatio |-> "16:9", artStyle |-> "Cinematic Realistic",
                     lighting |-> "Natural Daylight"]
               /\ \A i \in 1..Len(before) :
                    after[IF i <= k THEN i ELSE i + 1]
                      = Put(before[i], "shotNumber", IF i <= k THEN i ELSE i + 1)]_vars

\* a shot was added after the first of two shots: it stands between them
C21_Witness ==
  /\ lastOp.name = "handleAddShotAfter" /\ HasCurrentProject
  /\ lastOp.pid = selectedProjectId
  /\ Len(currentProject.shots) = 3
  /\ currentProject.shots[1].id = lastOp.sid
  /\ currentProject.shots[2].imageVariations = <<>>
  /\ currentProject.shots[2].id \notin {"s1", "s2", "s3"}
  /\ currentProject.shots[3].id \in {"s1", "s2", "s3"}

\* handleAddShotAfter was called with the id of a shot in the trash: the
\* project still has its first updatedAt
C21_WitnessAbsent ==
  /\ lastOp.name = "handleAddShotAfter" /\ HasCurrentProject
  /\ lastOp.pid = selectedProjectId
  /\ lastOp.sid \in Ids(TrashedShots(currentProject))
  /\ currentProject.updatedAt = 0

\* the dialog of handlePermanentlyDeleteShot or of handleEmptyTrash
ShotDialog(dialog) == dialog.kind \in {"deleteShot", "emptyTrash"}

\* the step is the confirm button of such a dialog
ConfirmsShotDialog ==
  /\ ShotDialog(confirmDialog) /\ confirmDialog' = NoDialog
  /\ lastOp'.name = "ConfirmDialogConfirm" /\ now' # now

\* C22: the confirmed permanently-delete-shot and empty-shot-trash take shots
\* out of trashedShots only, the active list staying as it was in ids, order
\* and numbers; opening the dialog and cancelling it leave every project as it was
C22_ShotTrashOnly ==
  [][/\ ConfirmsShotDialog =>
          /\ Len(projects') = Len(projects)
          /\ \A i \in 1..Len(projects) :
               IF projects[i].id # confirmDialog.pid THEN projects'[i] = projects[i]
               ELSE /\ projects'[i].shots = projects[i].shots
                    /\ projects'[i].trashedShots =
                         (IF confirmDialog.kind = "emptyTrash" THEN <<>>
                          ELSE Filter(TrashedShots(projects[i]),
                                      LAMBDA s : s.id # confirmDialog.sid))
                    /\ \A k \in DOMAIN projects[i] \ {"trashedShots", "updatedAt"} :
                         projects'[i][k] = projects[i][k]
     /\ (~ConfirmsShotDialog /\ (ShotDialog(confirmDialog) \/ ShotDialog(confirmDialog')))
          => projects' = projects]_vars

\* the one shot of the trash was deleted for good: the trash is empty and the
\* active list holds its two shots
C22_Witness ==
  /\ lastOp.name = "ConfirmDialogConfirm" /\ lastOp.dialog.kind = "deleteShot"
  /\ confirmDialog = NoDialog
  /\ lastOp.dialog.pid \in Ids(projects)
  /\ TrashedShots(Find(projects, lastOp.dialog.pid)) = <<>>
  /\ Len(Find(projects, lastOp.dialog.pid).shots) = 2

\* a trash of two shots was emptied and the active list holds the third
C22_WitnessEmptied ==
  /\ lastOp.name = "ConfirmDialogConfirm" /\ lastOp.dialog.kind = "emptyTrash"
  /\ lastOp.dialog.pid \in Ids(projects)
  /\ TrashedShots(Find(projects, lastOp.dialog.pid)) = <<>>
  /\ Len(Find(projects, lastOp.dialog.pid).shots) = 1

\* the step is handleDeleteProject or handleRestoreProject of a project
TrashesOrRestoresProject ==
  /\ lastOp'.name \in {"handleDeleteProject", "handleRestoreProject"}
  /\ now' # now

\* C23: soft-delete and restore of a project write its isTrashed and updatedAt
\* only, keep it and every other project in the collection, and a restore right
\* after the soft-delete gives the project its content of before, updatedAt aside
C23_SoftDeleteFrame ==
  [][/\ TrashesOrRestoresProject =>
          /\ Len(projects') = Len(projects)
          /\ \A i \in 1..Len(projects) :
               IF projects[i].id # lastOp'.pid THEN projects'[i] = projects[i]
               ELSE /\ projects'[i].isTrashed = (lastOp'.name = "handleDeleteProject")
                    /\ DOMAIN projects'[i] = DOMAIN projects[i]
                    /\ \A k \in DOMAIN projects[i] \ {"isTrashed", "updatedAt"} :
                         projects'[i][k] = projects[i][k]
     /\ (/\ TrashesOrRestoresProject
         /\ lastOp.name = "handleDeleteProject" /\ lastOp'.name = "handleRestoreProject"
         /\ lastOp'.pid = lastOp.pid) =>
          Delete(Find(projects', lastOp.pid), "updatedAt") = lastOp.before]_vars

\* a project with shots and a shot in its trash is in the project trash
C23_Witness ==
  /\ lastOp.name = "handleDeleteProject"
  /\ lastOp.pid \in Ids(projects)
  /\ Find(projects, lastOp.pid).isTrashed
  /\ Len(Find(projects, lastOp.pid).shots) = 2
  /\ Len(TrashedShots(Find(projects, lastOp.pid))) = 1
  /\ Find(projects, lastOp.pid).updatedAt > 0

\* a project is back from the project trash
C23_WitnessRestored ==
  /\ lastOp.name = "handleRestoreProject"
  /\ lastOp.pid \in Ids(projects)
  /\ ~Find(projects, lastOp.pid).isTrashed
  /\ Len(Find(projects, lastOp.pid).shots) = 2

\* the dialog of handlePermanentlyDeleteProject or of handleEmptyProjectTrash
ProjectDialog(dialog) == dialog.kind \in {"deleteProject", "emptyProjectTrash"}

\* the step is the confirm button of such a dialog
ConfirmsProjectDialog ==
  /\ ProjectDialog(confirmDialog) /\ confirmDialog' = NoDialog
  /\ lastOp'.name = "ConfirmDialogConfirm"
  /\ projects' # projects \/ dbOps' # dbOps \/ lastOp' # lastOp

\* C24: the confirmed hard-delete of a project removes the project of the given
\* id, the confirmed empty-project-trash every project with isTrashed; the
\* others stay as they were and in their order, and the Gateway deletes issued
\* are those of the removed ids, one per id
C24_HardDeleteExact ==
  [][ConfirmsProjectDialog =>
       LET matching == IF confirmDialog.kind = "deleteProject"
                       THEN {confirmDialog.id} \cap Ids(projects)
                       ELSE {projects[i].id : i \in {j \in 1..Len(projects) :
                                                       projects[j].isTrashed}}
       IN /\ projects' = Filter(projects, LAMBDA p : p.id \notin matching)
          /\ Ids(projects) \ Ids(projects') = matching
          /\ dbOps' \ dbOps = {[op |-> "delete", id |-> id] : id \in matching}
          /\ dbOps \subseteq dbOps']_vars

\* the project trash was emptied: the trashed project is gone, its delete is
\* with the Gateway, and the project that was not in the trash is still there
C24_Witness ==
  /\ lastOp.name = "ConfirmDialogConfirm" /\ lastOp.dialog.kind = "emptyProjectTrash"
  /\ Len(projects) = 1 /\ ~projects[1].isTrashed
  /\ \E o \in dbOps : o.op = "delete" /\ o.id \notin Ids(projects)

\* a project was deleted for good while another stayed in the project trash
C24_WitnessSingle ==
  /\ lastOp.name = "ConfirmDialogConfirm" /\ lastOp.dialog.kind = "deleteProject"
  /\ Len(projects) = 1 /\ projects[1].isTrashed
  /\ [op |-> "delete", id |-> lastOp.dialog.id] \in dbOps

\* the step is handleImportJson on a chosen file
ImportStep ==
  /\ lastOp'.name = "handleImportJson"
  /\ currentView' = currentView
  /\ lastOp' # lastOp \/ projects' # projects \/ globalError' # globalError

\* the file is not JSON, or its object has no id, or no shots
Lacking(file) == ~Has(file, "json") \/ ~Has(file.json, "id") \/ ~Has(file.json, "shots")

\* C25: the import of a file that is not parseable, or whose object lacks an id
\* or lacks the shots, is rejected: the collection is as it was, the global
\* error is set, no save is scheduled and nothing reaches the Gateway
C25_ImportRejected ==
  [][ImportStep /\ Lacking(lastOp'.file) =>
       /\ projects' = projects
       /\ globalError' # Undefined /\ globalError' # ""
       /\ saveTimers' = saveTimers
       /\ dbOps' = dbOps /\ stored' = stored]_vars

\* a file without an id was chosen over a loaded collection of one project
C25_Witness ==
  /\ lastOp.name = "handleImportJson" /\ lastOp.file = FileNoId
  /\ globalError = "import failed"
  /\ Len(projects) = 1 /\ dbOps = {}

\* a file that is not JSON was chosen
C25_WitnessGarbage ==
  /\ lastOp.name = "handleImportJson" /\ lastOp.file = FileGarbage
  /\ globalError = "import failed" /\ Len(projects) = 1

\* a file without shots was chosen
C25_WitnessNoShots ==
  /\ lastOp.name = "handleImportJson" /\ lastOp.file = FileNoShots
  /\ globalError = "import failed" /\ Len(projects) = 1

\* no two projects of the collection share an id
DistinctIds(ps) == \A i, j \in 1..Len(ps) : ps[i].id = ps[j].id => i = j

\* C26: an accepted import puts exactly one project at the front, with an id
\* that no project of the collection has and the title of the file followed by
\* " (Imported)", and leaves the others as they were; whatever creations and
\* imports happened, the ids of the collection are pairwise distinct
C26_ImportFresh ==
  [][/\ DistinctIds(projects')
     /\ ImportStep /\ ~Lacking(lastOp'.file) =>
          /\ Len(projects') = Len(projects) + 1
          /\ SubSeq(projects', 2, Len(projects')) = projects
          /\ projects'[1].id \notin Ids(projects)
          /\ projects'[1].title = lastOp'.file.json.title \o " (Imported)"]_vars

\* the same backup was imported twice: two projects, two ids, neither the id
\* written in the file
C26_Witness ==
  /\ lastOp.name = "handleImportJson" /\ lastOp.file = FileBackup
  /\ Len(projects) = 2
  /\ projects[1].title = "film (Imported)" /\ projects[2].title = "film (Imported)"
  /\ projects[1].id # projects[2].id
  /\ "p1" \notin Ids(projects)

\* a backup was imported next to a created project
C26_WitnessCreated ==
  /\ lastOp.name = "handleImportJson" /\ ~lastOp.rejected
  /\ Len(projects) = 2
  /\ projects[2].title # "film (Imported)" /\ projects[2].id \notin {"p1", "g1"}

\* a backup of the stored project was imported next to it
C26_WitnessOverStored ==
  /\ lastOp.name = "handleImportJson" /\ lastOp.file = FileBackup
  /\ Len(projects) = 2 /\ projects[2] = StoredProject /\ projects[1].id # "p1"

\* the step is the first-run migration of what localStorage held
LegacyStep == ~loaded /\ loaded' /\ lastOp'.name = "initializeData" /\ Has(lastOp', "legacy")

\* the shots the step migrated: the shot read (from), the shot the migration
\* returned (to: in the inserted project, in the projects handed to
\* db.saveAllProjects), and the path that migrated it
MigratedShots ==
  IF ImportStep /\ ~Lacking(lastOp'.file)
  THEN {[path |-> "import", from |-> lastOp'.file.json.shots[i], to |-> projects'[1].shots[i]]
        : i \in 1..Len(lastOp'.file.json.shots)}
  ELSE IF LegacyStep
  THEN UNION {{[path |-> "legacy", from |-> lastOp'.legacy[k].shots[i],
                to |-> lastOp'.migrated[k].shots[i]]
               : i \in 1..Len(lastOp'.legacy[k].shots)} : k \in 1..Len(lastOp'.legacy)}
  ELSE {}

\* the shot carries imageUrl or imageOriginalUrl
HasDeprecatedImage(shot) == TruthyUrl(shot, "imageUrl") \/ TruthyUrl(shot, "imageOriginalUrl")

\* imageVariations is missing or empty
NoVariations(shot) == ~Has(shot, "imageVariations") \/ shot.imageVariations = <<>>

\* C27: on both paths, a shot with imageUrl or imageOriginalUrl and with empty
\* or missing imageVariations comes out with exactly one variation, whose
\* originalUrl is imageOriginalUrl when the shot has it and imageUrl otherwise,
\* and with selectedVariationId naming that variation; a shot with neither field
\* and no variation comes out with an empty imageVariations and no selection
C27_LegacyVariation ==
  [][\A m \in MigratedShots :
       NoVariations(m.from) =>
         IF HasDeprecatedImage(m.from)
         THEN /\ Len(m.to.imageVariations) = 1
              /\ m.to.imageVariations[1].originalUrl =
                   (IF TruthyUrl(m.from, "imageOriginalUrl") THEN m.from.imageOriginalUrl
                    ELSE m.from.imageUrl)
              /\ m.to.selectedVariationId = m.to.imageVariations[1].id
         ELSE /\ m.to.imageVariations = <<>>
              /\ ~Truthy(m.to, "selectedVariationId")]_vars

\* a backup whose shot has both deprecated fields was imported: its one
\* variation shows imageOriginalUrl
C27_Witness ==
  /\ lastOp.name = "handleImportJson" /\ ~lastOp.rejected
  /\ lastOp.file.json.shots[1] = LegacyShotFull
  /\ Len(projects[1].shots[1].imageVariations) = 1
  /\ projects[1].shots[1].imageVariations[1].originalUrl = PngB
  /\ projects[1].shots[1].selectedVariationId = projects[1].shots[1].imageVariations[1].id

\* the first run migrated a shot that has imageUrl only
C27_WitnessLegacy ==
  /\ lastOp.name = "initializeData" /\ Has(lastOp, "legacy")
  /\ lastOp.legacy[1].shots[1] = LegacyShotUrl
  /\ lastOp.migrated[1].shots[1].imageVariations[1].originalUrl = PngA
  /\ lastOp.migrated[1].shots[1].selectedVariationId
       = lastOp.migrated[1].shots[1].imageVariations[1].id

\* a backup whose shot has no deprecated field and no variation was imported
C27_WitnessPlain ==
  /\ lastOp.name = "handleImportJson" /\ ~lastOp.rejected
  /\ lastOp.file.json.shots[1] = LegacyShotPlain
  /\ projects[1].shots[1].imageVariations = <<>>
  /\ ~Has(projects[1].shots[1], "selectedVariationId")

\* the five deprecated fields of a shot
DeprecatedFields ==
  {"imageUrl", "imageOriginalUrl", "imagePreviewUrl", "imagePreviewFileSize",
   "imageOriginalFileSize"}

\* C28: after the migration, on import and on the first run, the shot carries
\* none of the five deprecated fields
C28_NoDeprecatedField ==
  [][\A m \in MigratedShots : DOMAIN m.to \cap DeprecatedFields = {}]_vars

\* the migration of the path, run on a shot once more
MigrateAgain(m) ==
  IF m.path = "import" THEN MigrateImportedShot(m.to, Jpeg, "again", now')
  ELSE MigrateLegacyShot(m.to, Jpeg, "again", now')

\* the settings after the backfill of handleImportJson
Backfilled(shot) ==
  IF ~Has(shot, "settings")
  THEN [cameraMovement |-> "Static", shotType |-> "Medium Shot", aspectRatio |-> "16:9",
        artStyle |-> "Cinematic Realistic", lighting |-> "Natural Daylight"]
  ELSE IF ~Truthy(shot.settings, "shotType")
       THEN Put(shot.settings, "shotType", "Medium Shot")
       ELSE shot.settings

\* C29 (as the code has it): a shot with a non-empty imageVariations keeps its
\* variations, its selection and every other field, except that imageUrl,
\* imageOriginalUrl and imagePreviewUrl are removed and that the import fills
\* in missing settings; and a migrated shot, migrated again, is the same shot
C29_KeptAndIdempotent ==
  [][\A m \in MigratedShots :
       /\ MigrateAgain(m) = m.to
       /\ ~NoVariations(m.from) =>
            LET kept == DOMAIN m.from \ {"imageUrl", "imageOriginalUrl", "imagePreviewUrl"}
            IN /\ DOMAIN m.to = kept \cup (IF m.path = "import" THEN {"settings"} ELSE {})
               /\ \A key \in kept \ {"settings"} : m.to[key] = m.from[key]
               /\ Has(m.from, "settings") /\ m.path = "legacy"
                    => m.to.settings = m.from.settings
               /\ m.path = "import" => m.to.settings = Backfilled(m.from)]_vars

\* C29 as stated: a shot with a non-empty imageVariations comes out as it went
\* in, deprecated fields included
C29_Unchanged ==
  [][\A m \in MigratedShots : ~NoVariations(m.from) => m.to = m.from]_vars

\* a backup whose shot has a variation and an imageUrl was imported: the
\* variation and the selection are the shot's own, the imageUrl is gone
C29_Witness ==
  /\ lastOp.name = "handleImportJson" /\ ~lastOp.rejected
  /\ lastOp.file.json.shots[1] = LegacyShotKept
  /\ projects[1].shots[1].imageVariations = LegacyShotKept.imageVariations
  /\ projects[1].shots[1].selectedVariationId = "a4"
  /\ ~Has(projects[1].shots[1], "imageUrl")

\* the first run went over a shot that has a variation and no deprecated field
C29_WitnessLegacy ==
  /\ lastOp.name = "initializeData" /\ Has(lastOp, "legacy")
  /\ lastOp.legacy[1].shots[1] = StoredShot1
  /\ lastOp.migrated[1].shots[1] = StoredShot1

\* the five settings of the shot are there
Populated(shot) ==
  /\ Has(shot, "settings")
  /\ \A key \in {"cameraMovement", "shotType", "aspectRatio", "artStyle", "lighting"} :
       Truthy(shot.settings, key)

\* the projects the step migrated, as the migration left them
MigratedProjects ==
  IF ImportStep /\ ~Lacking(lastOp'.file) THEN {projects'[1]}
  ELSE IF LegacyStep
  THEN {lastOp'.migrated[k] : k \in 1..Len(lastOp'.migrated)}
  ELSE {}

\* C30: after the migration, on import and on the first run, every shot of the
\* project, in shots and in trashedShots, has its five settings
C30_SettingsPopulated ==
  [][\A project \in MigratedProjects :
       /\ \A i \in 1..Len(project.shots) : Populated(project.shots[i])
       /\ \A i \in 1..Len(TrashedShots(project)) : Populated(TrashedShots(project)[i])]_vars

\* the step is initializeData over a localStorage that holds the legacy item
LegacyStartup == ~loaded /\ loaded' /\ localData # NoLocalData

\* C31: the legacy item is removed only in a step that saved every migrated
\* project; when the parse, the migration or the save fails the item stays,
\* and in every case the page is loaded with the projects of the database
C31_RemovedAfterSave ==
  [][LegacyStartup =>
       /\ projects' = GetProjects(stored')
       /\ localData' # localData =>
            /\ localData' = NoLocalData
            /\ Has(lastOp', "migrated")
            /\ \A k \in 1..Len(lastOp'.migrated) : lastOp'.migrated[k] \in stored'
       /\ Has(lastOp', "failure") => localData' = localData /\ stored' = stored]_vars

\* the save of the migrated projects failed: the item is still in localStorage
\* and the page shows the stored project
C31_Witness ==
  /\ loaded /\ lastOp.name = "initializeData"
  /\ Has(lastOp, "failure") /\ lastOp.failure = "save failed"
  /\ Has(localData, "json") /\ projects = <<StoredProject>>

\* the item did not parse
C31_WitnessParse ==
  /\ loaded /\ lastOp.name = "initializeData"
  /\ Has(lastOp, "failure") /\ lastOp.failure = "parse failed"
  /\ localData = [text |-> "not json"] /\ projects = <<StoredProject>>

\* a project of the item has no shots: the migration threw
C31_WitnessMigration ==
  /\ loaded /\ lastOp.name = "initializeData"
  /\ Has(lastOp, "failure") /\ lastOp.failure = "migration failed"
  /\ localData # NoLocalData /\ stored = {}

\* the migration succeeded: the item is gone and its project is stored
C31_WitnessMigrated ==
  /\ loaded /\ lastOp.name = "initializeData" /\ Has(lastOp, "migrated")
  /\ localData = NoLocalData /\ "g1" \in Ids(projects)

\* old is the end of new
IsSuffix(old, new) ==
  /\ Len(old) <= Len(new)
  /\ SubSeq(new, Len(new) - Len(old) + 1, Len(new)) = old

\* C32: in every step, a shot that is in `shots` of its project before and
\* after has its previous imageVariations as the end of its new
\* imageVariations: the assets it had keep their ids, payloads and order, and
\* new ones come in front
C32_VariationsOnlyPrepended ==
  [][\A pid \in Ids(projects) \cap Ids(projects') :
       \A sid \in Ids(Find(projects, pid).shots) \cap Ids(Find(projects', pid).shots) :
         IsSuffix(Find(Find(projects, pid).shots, sid).imageVariations,
                  Find(Find(projects', pid).shots, sid).imageVariations)]_vars

\* a shot with one variation got a second by generation and a third by an
\* edit: the first one is last, the generated one in the middle
C32_Witness ==
  /\ lastOp.name = "EditSucceeds"
  /\ HasShot(projects, lastOp.op.pid, lastOp.op.sid)
  /\ LET shot == ShotOf(projects, lastOp.op.pid, lastOp.op.sid)
     IN /\ Len(shot.imageVariations) = 3
        /\ shot.imageVariations[3] = StoredShot1.imageVariations[1]
        /\ shot.imageVariations[2].originalUrl \in {PngA, PngB}

\* C33: the cooldown stays within 0..60 and the throttle within 0..3, and the
\* cooldown changes only by a rate-limit signal setting it to 60 or by going
\* down by one: no user action shortens it
C33_CooldownOnlyCountsDown ==
  [][/\ rateLimitCooldown' \in 0..60 /\ apiThrottle' \in 0..3
     /\ rateLimitCooldown' # rateLimitCooldown =>
          \/ rateLimitCooldown' = rateLimitCooldown - 1
          \/ rateLimitCooldown' = 60 /\ lastOp'.name = "AiCallFails"]_vars

\* the bytes the claim gives an encoded string, in quarters of a byte
CeilSize(base64String) ==
  LET n == Len(base64String)
      padding == IF n >= 2 /\ base64String[n] = "=" /\ base64String[n - 1] = "=" THEN 2
                 ELSE IF n >= 1 /\ base64String[n] = "=" THEN 1 ELSE 0
  IN 4 * (((3 * n + 3) \div 4) - padding)

\* C34: for every encoded string up to MaxLen characters, the size computed
\* for it is ceil(length * 3 / 4) minus 2 when it ends in two '=', minus 1 when
\* it ends in exactly one, minus 0 otherwise: a whole number of bytes
C34_SizeIsCeil ==
  [][ImportStep /\ ~Lacking(lastOp'.file) =>
       LET payload == lastOp'.file.json.shots[1].imageUrl
           asset == projects'[1].shots[1].imageVariations[1]
       IN /\ asset.originalUrl = payload
          /\ asset.originalFileSize = CeilSize(payload)
          /\ asset.originalFileSize % 4 = 0]_vars

\* nothing is pending: no AI call, no debounce timer, no Gateway operation, and
\* no upsert has failed
Settled == loaded /\ aiOps = {} /\ saveTimers = {} /\ dbOps = {} /\ saveErrors = {}

\* what the claim compares of a shot
Persisted(shot) ==
  [description |-> shot.description, visualPrompt |-> shot.visualPrompt,
   imageVariations |-> shot.imageVariations,
   selectedVariationId |-> Get(shot, "selectedVariationId"),
   isGeneratingImage |-> shot.isGeneratingImage, isUpdatingPrompt |-> shot.isUpdatingPrompt]

\* C35: once nothing is pending and every upsert succeeded, the record stored
\* for each project of the collection has the shots of the project, with the
\* same description, visualPrompt, variations, selection and flags
C35_EventuallyPersisted ==
  Settled =>
    \A i \in 1..Len(projects) :
      \E r \in stored :
        /\ r.id = projects[i].id
        /\ Len(r.shots) = Len(projects[i].shots)
        /\ \A k \in 1..Len(r.shots) : Persisted(r.shots[k]) = Persisted(projects[i].shots[k])

\* the shot is marked as being generated or as having its prompt rewritten
Flagged(shot) == shot.isGeneratingImage \/ shot.isUpdatingPrompt

\* C36: in every state, a shot of any project, in `shots` or in `trashedShots`,
\* that has isGeneratingImage or isUpdatingPrompt set implies that the busy
\* flag is set: no shot keeps a flag after its operation completed, even a shot
\* that was trashed while the operation was in flight
C36_FlagImpliesBusy ==
  \A i \in 1..Len(projects) :
    /\ \A k \in 1..Len(projects[i].shots) : Flagged(projects[i].shots[k]) => isApiBusy
    /\ \A k \in 1..Len(TrashedShots(projects[i])) :
         Flagged(TrashedShots(projects[i])[k]) => isApiBusy

\* the step is the completion of a generation or of a description update
CompletionStep ==
  /\ lastOp'.name \in {"GenerateSettles", "DescriptionSucceeds"}
  /\ lastOp'.op \in aiOps /\ lastOp'.op \notin aiOps'

\* the fields of a shot that the completion of `op` writes
WrittenBy(op) ==
  IF op.kind = "generate" THEN {"imageVariations", "selectedVariationId", "isGeneratingImage"}
  ELSE {"visualPrompt", "isUpdatingPrompt"}

\* a and b are the same object but for the keys in `keys`
SameBut(a, b, keys) ==
  /\ DOMAIN a \ keys = DOMAIN b \ keys
  /\ \A key \in DOMAIN a \ keys : a[key] = b[key]

C37_WitnessEdited ==
  /\ lastOp.name = "GenerateSettles" /\ lastOp.images = 1
  /\ HasShot(projects, lastOp.op.pid, lastOp.op.sid)
  /\ LET shot == ShotOf(projects, lastOp.op.pid, lastOp.op.sid)
     IN shot.settings.shotType = "Close-up" /\ Len(shot.imageVariations) = 2

\* the shot was trashed while its description was being rewritten: the trashed
\* shot has the prompt it had
C37_WitnessTrashed ==
  /\ lastOp.name = "DescriptionSucceeds"
  /\ lastOp.op.pid \in Ids(projects)
  /\ ~HasShot(projects, lastOp.op.pid, lastOp.op.sid)
  /\ lastOp.op.sid \in Ids(TrashedShots(Find(projects, lastOp.op.pid)))
  /\ Find(TrashedShots(Find(projects, lastOp.op.pid)), lastOp.op.sid).visualPrompt # lastOp.prompt

\* C38: once no debounce timer and no Gateway operation is pending, storage
\* holds no record of a project that was hard-deleted, that is, of a project
\* that is no longer in the loaded collection (hard-delete is the only way out
\* of it), however the upserts of the project and its delete interleaved
C38_DeletedStaysDeleted ==
  loaded /\ saveTimers = {} /\ dbOps = {} => \A r \in stored : r.id \in Ids(projects)

\* the projects an operation is aimed at: the one a dialog was opened for,
\* the one a completing AI call was started for, else the one on screen
Targets ==
  IF confirmDialog # NoDialog /\ confirmDialog' = NoDialog
  THEN {confirmDialog.pid}
  ELSE IF aiOps' # aiOps /\ aiOps' \subseteq aiOps
       THEN {op.pid : op \in {o \in aiOps \ aiOps' : Has(o, "pid")}}
       ELSE {selectedProjectId}

\* a step that neither loads, imports nor removes a project
KeepsProjectList == loaded /\ loaded' /\ Ids(projects') = Ids(projects) /\ Len(projects') = Len(projects)

\* C39: every shot-level and project-info operation, and every completion of
\* an AI operation, leaves each project other than the targeted one exactly as
\* it was, its updatedAt included
C39_OtherProjectsUnchanged ==
  [][KeepsProjectList =>
       \A i \in 1..Len(projects) :
         projects[i].id \notin Targets => projects'[i] = projects[i]]_vars

\* project info saved for one of two projects, the other one keeps its title
C39_Witness ==
  /\ Len(projects) = 2
  /\ lastOp.name = "handleSaveProjectInfo"
  /\ \E i, j \in 1..2 : /\ projects[i].id = lastOp.pid /\ projects[i].title = "retitled"
                        /\ projects[j].id # lastOp.pid /\ projects[j].title # "retitled"

\* an image generation completes for a project that is not on screen any more
C39_WitnessCompletion ==
  /\ Len(projects) = 2
  /\ lastOp.name = "GenerateSettles"
  /\ selectedProjectId \in Ids(projects) \ {lastOp.op.pid}
  /\ Len(Find(Find(projects, lastOp.op.pid).shots, lastOp.op.sid).imageVariations) > 0

\* an admitted operation clears the busy flag
BusyClears == isApiBusy ~> ~isApiBusy

\* the throttle runs out
ThrottleRunsOut == (apiThrottle > 0) ~> (apiThrottle = 0)

\* the guard of the AI handlers is open again and again
AdmissibleAgain == []<>Admitted

\* C40: when every collaborator call settles and the timers fire, an admitted
\* operation eventually clears the busy flag, and the throttle and the cooldown
\* counters eventually reach zero
C40_EventuallyUnblocked ==
  /\ isApiBusy ~> ~isApiBusy
  /\ (apiThrottle > 0) ~> (apiThrottle = 0)
  /\ (rateLimitCooldown > 0) ~> (rateLimitCooldown = 0)

====
